---- MODULE Spec2Model ----
(***************************************************************************)
(* A model of lolite's flex layout engine                                  *)
(* (crates/lolite/src/flex_layout.rs).                                     *)
(*                                                                         *)
(* f64 values are modelled as exact rationals <<numerator, denominator>>   *)
(* in lowest terms with a positive denominator, so that equal values are   *)
(* equal tuples.  The model therefore states what the arithmetic of the    *)
(* code computes up to floating-point rounding.                            *)
(***************************************************************************)
EXTENDS Integers, Sequences, FiniteSets, TLC

VARIABLES
    nodes,        \* the node tree: node id -> Node (children, text, attributes, layout record)
    sheet,        \* ctx.style_sheet.rules
    stack,        \* the in-flight calls of layout_flex_children, innermost last
    passes,       \* number of layout passes over the root container that have returned
    log,          \* the calls of ctx.layout_node made during the current root pass
    tree0,        \* the tree as it was constructed
    preNodes,     \* the tree as it was when the current root pass was entered
    firstNodes,   \* the tree as it was when the first root pass returned
    returned,     \* what the latest call of ctx.layout_node on a leaf left in the leaf's record
    jin,          \* arguments of a stand-alone call of justify_offsets
    jout,         \* its result
    running,      \* Engine.running, the lock shared by an Engine and its clones: holder or 0
    runpc,        \* where each holder of an Engine handle is in Engine::run
    loops,        \* the handles whose call of Engine::run is inside the event loop
    runlog,       \* the calls of Engine::run made so far, with their results
    borrows,      \* the RefCell guards on nodes that calls of the engine hold
    conflict      \* whether a borrow was attempted that a held guard excludes

engineVars == <<running, runpc, loops, runlog>>
layoutVars == <<nodes, sheet, stack, passes, log, tree0, preNodes, firstNodes, returned, jin, jout,
                borrows, conflict>>

vars == <<nodes, sheet, stack, passes, log, tree0, preNodes, firstNodes, returned, jin, jout,
          running, runpc, loops, runlog, borrows, conflict>>

-----------------------------------------------------------------------------
(* f64 arithmetic over exact rationals *)

RECURSIVE Gcd(_, _)
Gcd(a, b) == IF b = 0 THEN a ELSE Gcd(b, a % b)

Abs(n) == IF n < 0 THEN 0 - n ELSE n

RNorm(n, d) ==
    LET s == IF d < 0 THEN 0 - 1 ELSE 1
        g == Gcd(Abs(n), Abs(d))
    IN  <<(s * n) \div g, (s * d) \div g>>

R(n) == <<n, 1>>
RAdd(a, b) == RNorm(a[1] * b[2] + b[1] * a[2], a[2] * b[2])
RSub(a, b) == RNorm(a[1] * b[2] - b[1] * a[2], a[2] * b[2])
RMul(a, b) == RNorm(a[1] * b[1], a[2] * b[2])
RDiv(a, b) == RNorm(a[1] * b[2], a[2] * b[1])
RLt(a, b) == a[1] * b[2] < b[1] * a[2]
RLe(a, b) == a[1] * b[2] <= b[1] * a[2]
RMax(a, b) == IF RLt(a, b) THEN b ELSE a

\* The value of a one-element set: Pick({e(x) : x \in {v}}) is e(v), with v
\* evaluated once.
Pick(S) == CHOOSE v \in S : TRUE

-----------------------------------------------------------------------------
(* Style values.  An Option<T> is a record with a tag k and a payload v;   *)
(* an unset enum property is the string "unset".                           *)

None == [k |-> "none", v |-> 0]
Some(n) == [k |-> "some", v |-> n]
Px(n) == [k |-> "px", v |-> n]
Auto == [k |-> "auto", v |-> 0]
Unset == "unset"

NoSides == [k |-> "none", top |-> 0, right |-> 0, bottom |-> 0, left |-> 0]
Sides(t, r, b, l) == [k |-> "some", top |-> t, right |-> r, bottom |-> b, left |-> l]

\* Style::default(): every property unset.
DefaultStyle ==
    [display |-> Unset, flex_direction |-> Unset, flex_wrap |-> Unset,
     justify_content |-> Unset, align_items |-> Unset, align_self |-> Unset,
     order |-> None, flex_grow |-> None, flex_shrink |-> None, flex_basis |-> None,
     width |-> None, height |-> None,
     gap |-> None, row_gap |-> None, column_gap |-> None,
     padding |-> NoSides, border_width |-> None, margin |-> NoSides]

\* Length::to_px: a pixel length is its value, auto resolves to 0.
to_px(l) == IF l.k = "px" THEN R(l.v) ELSE R(0)

\* Style::merge(declaration): the declaration's property takes the declared
\* value; the margin shorthand sets the four sides, margin-left one side.
Merge(style, decl) ==
    IF decl.prop = "margin_left"
    THEN [style EXCEPT !.margin = [k |-> "some", top |-> @.top, right |-> @.right,
                                   bottom |-> @.bottom, left |-> decl.val]]
    ELSE [style EXCEPT ![decl.prop] = decl.val]

Decl(p, v) == [prop |-> p, val |-> v]
Rule(sel, decls) == [selector |-> sel, declarations |-> decls]

-----------------------------------------------------------------------------
(* Nodes *)

NoText == [k |-> "none", s |-> <<>>]
Txt(s) == [k |-> "some", s |-> s]

NoAttrs == [k |-> "none", classes |-> <<>>]
Class(cs) == [k |-> "class", classes |-> cs]
OtherAttr == [k |-> "other", classes |-> <<>>]

Rect(x, y, w, h) == [x |-> R(x), y |-> R(y), width |-> R(w), height |-> R(h)]

\* str::trim().is_empty(): only whitespace characters, or none at all.
Whitespace == {" ", "\n", "\t"}
TrimIsEmpty(s) == \A i \in 1..Len(s) : s[i] \in Whitespace

-----------------------------------------------------------------------------
(* resolve_style *)

RECURSIVE FindRule(_, _, _)
FindRule(rules, sel, i) ==
    IF i > Len(rules) THEN 0
    ELSE IF rules[i].selector = sel THEN i
    ELSE FindRule(rules, sel, i + 1)

\* A variant that merges the declarations last to first.
RECURSIVE MergeAll_Backwards(_, _)
MergeAll_Backwards(style, decls) ==
    IF decls = <<>> THEN style
    ELSE MergeAll_Backwards(Merge(style, decls[Len(decls)]), SubSeq(decls, 1, Len(decls) - 1))

RECURSIVE MergeAll(_, _)
MergeAll(style, decls) ==
    IF decls = <<>> THEN style
    ELSE MergeAll(Merge(style, Head(decls)), Tail(decls))

RECURSIVE ApplyClasses(_, _, _)
ApplyClasses(rules, style, classes) ==
    IF classes = <<>> THEN style
    ELSE LET i == FindRule(rules, Head(classes), 1)
         IN  ApplyClasses(rules,
                          IF i = 0 THEN style ELSE MergeAll(style, rules[i].declarations),
                          Tail(classes))

resolve_style(T, n, fallback) ==
    LET nd == T[n]
        s1 == IF nd.attrs.k = "class"
              THEN ApplyClasses(sheet, nd.style, nd.attrs.classes)
              ELSE nd.style
    IN  IF nd.attrs.k = "none" /\ nd.children = <<>>
        THEN [s1 EXCEPT !.display = fallback.display]
        ELSE s1

-----------------------------------------------------------------------------
(* Axis helpers *)

IsRow(direction) == direction \in {"row", "row-reverse"}

\* A variant that takes only an explicit length as definite.
is_definite_container_content_box_size_PxOnly(style, direction, axis) ==
    IF IsRow(direction) = (axis = "main")
    THEN style.width.k = "px"
    ELSE style.height.k = "px"

is_definite_container_content_box_size(style, direction, axis) ==
    IF IsRow(direction) = (axis = "main")
    THEN style.width.k # "auto"
    ELSE style.height.k # "auto"

axis_padding_sum_px(style, direction, axis) ==
    IF style.padding.k = "none" THEN R(0)
    ELSE IF IsRow(direction) = (axis = "main")
         THEN R(style.padding.left + style.padding.right)
         ELSE R(style.padding.top + style.padding.bottom)

axis_border_sum_px(style, direction, axis) ==
    IF style.border_width.k = "none" THEN R(0)
    ELSE RMul(to_px(style.border_width), R(2))

determine_available_space(container_axis_size, style, direction, axis) ==
    IF is_definite_container_content_box_size(style, direction, axis)
    THEN container_axis_size
    ELSE RMax(RSub(RSub(container_axis_size, axis_padding_sum_px(style, direction, axis)),
                   axis_border_sum_px(style, direction, axis)),
              R(0))

\* (row_gap, column_gap)
gaps_px(style) ==
    IF style.gap.k # "none"
    THEN <<to_px(style.gap), to_px(style.gap)>>
    ELSE <<IF style.row_gap.k = "none" THEN R(0) ELSE to_px(style.row_gap),
           IF style.column_gap.k = "none" THEN R(0) ELSE to_px(style.column_gap)>>

cross_size_is_auto(style, direction) ==
    IF IsRow(direction) THEN style.height.k = "none" ELSE style.width.k = "none"

-----------------------------------------------------------------------------
(* base_sizes_for_item *)

DefaultWidth == 100
DefaultHeight == 30

\* style.<dim>.as_ref().map(|l| l.to_px()).filter(|v| *v > 0.0).is_some()
PositivePx(l) == l.k # "none" /\ RLt(R(0), to_px(l))

RECURSIVE FoldMax(_, _)
FoldMax(vals, acc) ==
    IF vals = <<>> THEN acc ELSE FoldMax(Tail(vals), RMax(acc, Head(vals)))

intrinsic_main_from_children(T, n, parent_direction, fallback) ==
    LET children == T[n].children
        size(c) == LET s == resolve_style(T, c, fallback)
                   IN  IF IsRow(parent_direction)
                       THEN IF s.width.k = "none" THEN R(DefaultWidth) ELSE to_px(s.width)
                       ELSE IF s.height.k = "none" THEN R(DefaultHeight) ELSE to_px(s.height)
    IN  IF children = <<>> THEN R(0)
        ELSE FoldMax([i \in 1..Len(children) |-> size(children[i])], R(0))

\* A variant that takes a flex-basis of zero for auto.
base_sizes_for_item_ZeroBasisAuto(T, n, style, direction) ==
    LET width == IF PositivePx(style.width) THEN to_px(style.width) ELSE R(DefaultWidth)
        height == IF PositivePx(style.height) THEN to_px(style.height) ELSE R(DefaultHeight)
        main_from_size == IF IsRow(direction) THEN width ELSE height
        cross_from_size == IF IsRow(direction) THEN height ELSE width
        main0 == IF style.flex_basis.k = "px" /\ style.flex_basis.v # 0
                 THEN R(style.flex_basis.v) ELSE main_from_size
        is_container == T[n].children # <<>>
        has_explicit_main == IF IsRow(direction) THEN style.width.k = "px"
                             ELSE style.height.k = "px"
        main_was_default == IF IsRow(direction) THEN ~PositivePx(style.width)
                            ELSE ~PositivePx(style.height)
        intrinsic == intrinsic_main_from_children(T, n, direction, style)
        main == IF is_container /\ ~has_explicit_main /\ style.flex_basis.k = "none"
                   /\ RLt(R(0), intrinsic) /\ main_was_default
                THEN intrinsic ELSE main0
    IN  <<main, cross_from_size>>

\* <<main, cross>>
base_sizes_for_item(T, n, style, direction) ==
    LET width == IF PositivePx(style.width) THEN to_px(style.width) ELSE R(DefaultWidth)
        height == IF PositivePx(style.height) THEN to_px(style.height) ELSE R(DefaultHeight)
        main_from_size == IF IsRow(direction) THEN width ELSE height
        cross_from_size == IF IsRow(direction) THEN height ELSE width
        main0 == IF style.flex_basis.k = "px" THEN R(style.flex_basis.v) ELSE main_from_size
        is_container == T[n].children # <<>>
        has_explicit_main == IF IsRow(direction) THEN style.width.k = "px"
                             ELSE style.height.k = "px"
        main_was_default == IF IsRow(direction) THEN ~PositivePx(style.width)
                            ELSE ~PositivePx(style.height)
        intrinsic == intrinsic_main_from_children(T, n, direction, style)
        main == IF is_container /\ ~has_explicit_main /\ style.flex_basis.k = "none"
                   /\ RLt(R(0), intrinsic) /\ main_was_default
                THEN intrinsic ELSE main0
    IN  <<main, cross_from_size>>

-----------------------------------------------------------------------------
(* Item collection: the clone of the child list, the sort by order, the    *)
(* whitespace filter and the FlexItem of every surviving child.            *)

\* A variant that sorts the container's own list in place.
ChildListAfterSort_InPlace(original, sorted) == sorted

\* let mut children = container.borrow().children.clone(): the container's
\* own list is what it was; the engine sorts its private copy.
ChildListAfterSort(original, sorted) == original

OrderKey(T, c, container_style) ==
    LET s == resolve_style(T, c, container_style)
    IN  IF s.order.k = "some" THEN s.order.v ELSE 0

\* A variant of an unstable sort: `c` goes before the elements of equal key.
RECURSIVE StableInsert_BeforeEqual(_, _, _, _)
StableInsert_BeforeEqual(T, sorted, c, cs) ==
    IF sorted = <<>> THEN <<c>>
    ELSE IF OrderKey(T, Head(sorted), cs) < OrderKey(T, c, cs)
         THEN <<Head(sorted)>> \o StableInsert_BeforeEqual(T, Tail(sorted), c, cs)
         ELSE <<c>> \o sorted

\* `c` goes behind every element whose key is not greater than its own.
RECURSIVE StableInsert(_, _, _, _)
StableInsert(T, sorted, c, cs) ==
    IF sorted = <<>> THEN <<c>>
    ELSE IF OrderKey(T, Head(sorted), cs) <= OrderKey(T, c, cs)
         THEN <<Head(sorted)>> \o StableInsert(T, Tail(sorted), c, cs)
         ELSE <<c>> \o sorted

\* Vec::sort_by_key is a stable sort.
RECURSIVE sort_by_key(_, _, _)
sort_by_key(T, children, cs) ==
    IF children = <<>> THEN <<>>
    ELSE StableInsert(T, sort_by_key(T, SubSeq(children, 1, Len(children) - 1), cs),
                      children[Len(children)], cs)

is_text_node_guess(T, c) ==
    T[c].text.k = "some" /\ T[c].attrs.k = "none" /\ T[c].children = <<>>

\* A variant that skips every text child, whatever its text.
IsDropped_AnyText(T, c) == is_text_node_guess(T, c)

\* A variant that tests the text without trimming it.
IsDropped_Untrimmed(T, c) == is_text_node_guess(T, c) /\ T[c].text.s = <<>>

\* The child is skipped by the `continue` of the collection loop.
IsDropped(T, c) == is_text_node_guess(T, c) /\ TrimIsEmpty(T[c].text.s)

MakeItem(T, c, cs, direction) ==
    Pick({ Pick({ [node |-> c, style |-> style,
                   base_main |-> base[1], base_cross |-> base[2],
                   final_main |-> base[1], final_cross |-> base[2]]
                  : base \in {base_sizes_for_item(T, c, style, direction)} })
           : style \in {resolve_style(T, c, cs)} })

RECURSIVE CollectItems(_, _, _, _)
CollectItems(T, children, cs, direction) ==
    IF children = <<>> THEN <<>>
    ELSE LET rest == CollectItems(T, Tail(children), cs, direction)
         IN  IF IsDropped(T, Head(children)) THEN rest
             ELSE <<MakeItem(T, Head(children), cs, direction)>> \o rest

-----------------------------------------------------------------------------
(* Line breaking *)

can_wrap(wrap) == wrap \in {"wrap", "wrap-reverse"}

\* A variant that breaks lines whatever the wrap mode is.
should_wrap_AnyMode(wrapping, current, candidate_used, available_main) ==
    current # <<>> /\ RLt(available_main, candidate_used)

\* A variant that also closes the line before an item that fits exactly.
should_wrap_AtFit(wrapping, current, candidate_used, available_main) ==
    wrapping /\ current # <<>> /\ RLe(available_main, candidate_used)

should_wrap(wrapping, current, candidate_used, available_main) ==
    wrapping /\ current # <<>> /\ RLt(available_main, candidate_used)

\* The loop over items.iter().enumerate() from index i on, then the push of
\* the last line.
RECURSIVE FormLines(_, _, _, _, _, _, _, _)
FormLines(items, i, lines, current, used, wrapping, main_gap, available_main) ==
    IF i > Len(items)
    THEN IF current # <<>> THEN Append(lines, current) ELSE lines
    ELSE LET additional_gap == IF current = <<>> THEN R(0) ELSE main_gap
             candidate_used == RAdd(RAdd(used, additional_gap), items[i].base_main)
         IN  Pick({ FormLines(items, i + 1,
                              IF brk THEN Append(lines, current) ELSE lines,
                              Append(IF brk THEN <<>> ELSE current, i),
                              IF brk THEN items[i].base_main
                              ELSE RAdd(RAdd(used, IF current = <<>> THEN R(0) ELSE main_gap),
                                        items[i].base_main),
                              wrapping, main_gap, available_main)
                    : brk \in {should_wrap(wrapping, current, candidate_used,
                                           available_main)} })

-----------------------------------------------------------------------------
(* Flexing of one line *)

RECURSIVE SumSeq(_)
SumSeq(vals) == IF vals = <<>> THEN R(0) ELSE RAdd(Head(vals), SumSeq(Tail(vals)))

\* line.iter().enumerate().fold(0.0, |acc, (pos, idx)| acc + gap + size)
\* A variant that leaves the gaps out of the used main size.
total_base_main_NoGaps(items, line, main_gap) ==
    SumSeq([pos \in 1..Len(line) |-> items[line[pos]].base_main])

total_base_main(items, line, main_gap) ==
    SumSeq([pos \in 1..Len(line) |->
              RAdd(IF pos > 1 THEN main_gap ELSE R(0), items[line[pos]].base_main)])

\* A variant that leaves the gaps out of the used main size after flexing.
line_used_main_NoGaps(items, line, main_gap) ==
    SumSeq([pos \in 1..Len(line) |-> items[line[pos]].final_main])

line_used_main(items, line, main_gap) ==
    SumSeq([pos \in 1..Len(line) |->
              RAdd(IF pos > 1 THEN main_gap ELSE R(0), items[line[pos]].final_main)])

GrowOf(item) == IF item.style.flex_grow.k = "some" THEN R(item.style.flex_grow.v) ELSE R(0)

\* A variant with the standard default, flex-shrink: 1.
ShrinkOf_DefaultOne(item) ==
    IF item.style.flex_shrink.k = "some" THEN R(item.style.flex_shrink.v) ELSE R(1)

\* In this codebase an unspecified flex-shrink means "don't shrink".
ShrinkOf(item) ==
    IF item.style.flex_shrink.k = "some" THEN R(item.style.flex_shrink.v) ELSE R(0)

\* A variant that weighs by the shrink factor alone.
ShrinkWeight_FactorOnly(item) == ShrinkOf(item)

ShrinkWeight(item) == RMul(ShrinkOf(item), item.base_main)

InLine(line, idx) == \E pos \in 1..Len(line) : line[pos] = idx

\* A variant that floors the shrunk size at 0.
FlexedMain_Floored(items, line, idx, main_gap, available_main) ==
    LET free_space == RSub(available_main, total_base_main(items, line, main_gap))
        total_grow == SumSeq([pos \in 1..Len(line) |-> GrowOf(items[line[pos]])])
        total_weight == SumSeq([pos \in 1..Len(line) |-> ShrinkWeight(items[line[pos]])])
    IN  IF RLt(R(0), free_space)
        THEN IF RLt(R(0), total_grow)
             THEN RAdd(items[idx].base_main,
                       RMul(free_space, RDiv(GrowOf(items[idx]), total_grow)))
             ELSE items[idx].final_main
        ELSE IF RLt(free_space, R(0))
        THEN IF RLt(R(0), total_weight)
             THEN RMax(R(0),
                       RSub(items[idx].base_main,
                            RMul(RSub(R(0), free_space),
                                 RDiv(ShrinkWeight(items[idx]), total_weight))))
             ELSE items[idx].final_main
        ELSE items[idx].final_main

\* The final main size of item idx of the line.
FlexedMain(items, line, idx, main_gap, available_main) ==
    LET free_space == RSub(available_main, total_base_main(items, line, main_gap))
        total_grow == SumSeq([pos \in 1..Len(line) |-> GrowOf(items[line[pos]])])
        total_weight == SumSeq([pos \in 1..Len(line) |-> ShrinkWeight(items[line[pos]])])
    IN  IF RLt(R(0), free_space)
        THEN IF RLt(R(0), total_grow)
             THEN RAdd(items[idx].base_main,
                       RMul(free_space, RDiv(GrowOf(items[idx]), total_grow)))
             ELSE items[idx].final_main
        ELSE IF RLt(free_space, R(0))
        THEN IF RLt(R(0), total_weight)
             THEN RSub(items[idx].base_main,
                       RMul(RSub(R(0), free_space),
                            RDiv(ShrinkWeight(items[idx]), total_weight)))
             ELSE items[idx].final_main
        ELSE items[idx].final_main

ResolveFlex(items, line, main_gap, available_main) ==
    [idx \in 1..Len(items) |->
        IF InLine(line, idx)
        THEN [items[idx] EXCEPT !.final_main =
                 FlexedMain(items, line, idx, main_gap, available_main)]
        ELSE items[idx]]

-----------------------------------------------------------------------------
(* Cross size of a line, alignment *)

\* A variant without the single-line override.
LineCrossSize_ItemMax(items, line, is_single_line, container_style, direction, available_cross) ==
    FoldMax([pos \in 1..Len(line) |-> items[line[pos]].final_cross], R(0))

LineCrossSize(items, line, is_single_line, container_style, direction, available_cross) ==
    IF is_single_line
       /\ is_definite_container_content_box_size(container_style, direction, "cross")
    THEN available_cross
    ELSE FoldMax([pos \in 1..Len(line) |-> items[line[pos]].final_cross], R(0))

AlignItemsOf(container_style) ==
    IF container_style.align_items = Unset THEN "stretch" ELSE container_style.align_items

\* align-self of the item, auto (or unset) meaning the container's align-items.
EffectiveAlign(item, align_items) ==
    IF item.style.align_self \in {Unset, "auto"} THEN align_items
    ELSE item.style.align_self

ApplyStretch(items, line, line_cross_size, align_items, direction) ==
    [idx \in 1..Len(items) |->
        IF InLine(line, idx)
           /\ EffectiveAlign(items[idx], align_items) = "stretch"
           /\ cross_size_is_auto(items[idx].style, direction)
        THEN [items[idx] EXCEPT !.final_cross = line_cross_size]
        ELSE items[idx]]

\* The cross position of an item within its line.
cross_pos(item, align_items, line_cross_offset, line_cross_size) ==
    IF align_items = "flex-end"
    THEN RAdd(line_cross_offset, RSub(line_cross_size, item.final_cross))
    ELSE IF align_items = "center"
    THEN RAdd(line_cross_offset, RDiv(RSub(line_cross_size, item.final_cross), R(2)))
    ELSE line_cross_offset

-----------------------------------------------------------------------------
(* justify_offsets: <<start_offset, between_gap>> *)

IsReverse(direction) == direction \in {"row-reverse", "column-reverse"}

\* A variant in which space-between with at most one item is handed over to
\* flex-start before the reverse directions flip flex-start and flex-end.
justify_offsets_FallbackStart(justify, direction, leftover, base_gap, item_count) ==
    LET j0 == IF justify = "space-between" /\ item_count <= 1 THEN "flex-start" ELSE justify
        j == IF IsReverse(direction) /\ j0 = "flex-start" THEN "flex-end"
             ELSE IF IsReverse(direction) /\ j0 = "flex-end" THEN "flex-start"
             ELSE j0
    IN  IF item_count = 0 THEN <<R(0), base_gap>>
        ELSE CASE j = "flex-start" -> <<R(0), base_gap>>
               [] j = "flex-end" -> <<leftover, base_gap>>
               [] j = "center" -> <<RDiv(leftover, R(2)), base_gap>>
               [] j = "space-between" ->
                    <<R(0), RAdd(base_gap, RDiv(leftover, R(item_count - 1)))>>
               [] j = "space-around" ->
                    <<RDiv(RDiv(leftover, R(item_count)), R(2)),
                      RAdd(base_gap, RDiv(leftover, R(item_count)))>>
               [] j = "space-evenly" ->
                    <<RDiv(leftover, R(item_count + 1)),
                      RAdd(base_gap, RDiv(leftover, R(item_count + 1)))>>

\* A variant that gives the reversed directions the offsets of the plain ones.
justify_offsets_NoFlip(justify, direction, leftover, base_gap, item_count) ==
    LET j == justify
    IN  IF item_count = 0 THEN <<R(0), base_gap>>
        ELSE CASE j = "flex-start" -> <<R(0), base_gap>>
               [] j = "flex-end" -> <<leftover, base_gap>>
               [] j = "center" -> <<RDiv(leftover, R(2)), base_gap>>
               [] j = "space-between" ->
                    IF item_count <= 1 THEN <<R(0), base_gap>>
                    ELSE <<R(0), RAdd(base_gap, RDiv(leftover, R(item_count - 1)))>>
               [] j = "space-around" ->
                    LET extra == RDiv(leftover, R(item_count))
                    IN  <<RDiv(extra, R(2)), RAdd(base_gap, extra)>>
               [] j = "space-evenly" ->
                    LET extra == RDiv(leftover, R(item_count + 1))
                    IN  <<extra, RAdd(base_gap, extra)>>

justify_offsets(justify, direction, leftover, base_gap, item_count) ==
    LET j == IF IsReverse(direction) /\ justify = "flex-start" THEN "flex-end"
             ELSE IF IsReverse(direction) /\ justify = "flex-end" THEN "flex-start"
             ELSE justify
    IN  IF item_count = 0 THEN <<R(0), base_gap>>
        ELSE CASE j = "flex-start" -> <<R(0), base_gap>>
               [] j = "flex-end" -> <<leftover, base_gap>>
               [] j = "center" -> <<RDiv(leftover, R(2)), base_gap>>
               [] j = "space-between" ->
                    IF item_count <= 1 THEN <<R(0), base_gap>>
                    ELSE <<R(0), RAdd(base_gap, RDiv(leftover, R(item_count - 1)))>>
               [] j = "space-around" ->
                    LET extra == RDiv(leftover, R(item_count))
                    IN  <<RDiv(extra, R(2)), RAdd(base_gap, extra)>>
               [] j = "space-evenly" ->
                    LET extra == RDiv(leftover, R(item_count + 1))
                    IN  <<extra, RAdd(base_gap, extra)>>

-----------------------------------------------------------------------------
(* One call of layout_flex_children, as a frame of locals *)

Root == 0

DirectionOf(cs) == IF cs.flex_direction = Unset THEN "row" ELSE cs.flex_direction
WrapOf(cs) == IF cs.flex_wrap = Unset THEN "nowrap" ELSE cs.flex_wrap
JustifyOf(cs) == IF cs.justify_content = Unset THEN "flex-start" ELSE cs.justify_content

\* The locals on entry, up to and including the formation of the lines.
FrameOf(T, c, cs, direction, available_main, available_cross, main_gap, cross_gap, sorted, items, lines) ==
    [container |-> c, cstyle |-> cs, direction |-> direction,
     justify_content |-> JustifyOf(cs), align_items |-> AlignItemsOf(cs),
     container_x |-> T[c].bounds.x, container_y |-> T[c].bounds.y,
     available_main |-> available_main, available_cross |-> available_cross,
     main_gap |-> main_gap, cross_gap |-> cross_gap,
     sorted |-> sorted, items |-> items, lines |-> lines,
     is_single_line |-> (Len(lines) = 1),
     li |-> 0, pos |-> 0,
     line_cross_offset |-> R(0), line_cross_size |-> R(0),
     cursor_main |-> R(0), between_gap |-> R(0),
     x |-> R(0), y |-> R(0), w |-> R(0), h |-> R(0),
     pc |-> "lines"]

CollectedFrame(T, c, cs, direction, available_main, available_cross, main_gap, cross_gap, sorted) ==
    Pick({ Pick({ FrameOf(T, c, cs, direction, available_main, available_cross,
                          main_gap, cross_gap, sorted, items, lines)
                  : lines \in {FormLines(items, 1, <<>>, <<>>, R(0), can_wrap(WrapOf(cs)),
                                         main_gap, available_main)} })
           : items \in {CollectItems(T, sorted, cs, direction)} })

NewFrame(T, c, cs) ==
    Pick({ CollectedFrame(T, c, cs, direction,
                          determine_available_space(
                              IF IsRow(direction) THEN b.width ELSE b.height,
                              cs, direction, "main"),
                          determine_available_space(
                              IF IsRow(direction) THEN b.height ELSE b.width,
                              cs, direction, "cross"),
                          IF IsRow(direction) THEN g[2] ELSE g[1],
                          IF IsRow(direction) THEN g[1] ELSE g[2],
                          sorted)
           : direction \in {DirectionOf(cs)}, b \in {T[c].bounds}, g \in {gaps_px(cs)},
             sorted \in {sort_by_key(T, T[c].children, cs)} })

\* The body of `for line in lines` for line li, up to the placement loop.
FlexedLine(f, li, items1) ==
    Pick({ Pick({ Pick({ [f EXCEPT !.items = items2, !.li = li, !.pos = 1,
                                   !.line_cross_size = lcs,
                                   !.cursor_main = jo[1], !.between_gap = jo[2],
                                   !.pc = "write"]
                         : jo \in {justify_offsets(
                                      f.justify_content, f.direction,
                                      RMax(RSub(f.available_main,
                                                line_used_main(items2, f.lines[li],
                                                               f.main_gap)),
                                           R(0)),
                                      f.main_gap, Len(f.lines[li]))} })
                  : items2 \in {ApplyStretch(items1, f.lines[li], lcs, f.align_items,
                                             f.direction)} })
           : lcs \in {LineCrossSize(items1, f.lines[li], f.is_single_line, f.cstyle,
                                    f.direction, f.available_cross)} })

StartLine(f, li) ==
    Pick({ FlexedLine(f, li, items1)
           : items1 \in {ResolveFlex(f.items, f.lines[li], f.main_gap, f.available_main)} })

\* A variant that moves the item by its left and top margin.
PlaceItem_WithMargin(f) ==
    Pick({ IF IsRow(f.direction)
           THEN [f EXCEPT !.cursor_main = cursor,
                          !.x = RAdd(RAdd(f.container_x, cursor), R(item.style.margin.left)),
                          !.y = RAdd(RAdd(f.container_y, cp), R(item.style.margin.top)),
                          !.w = item.final_main, !.h = item.final_cross]
           ELSE [f EXCEPT !.cursor_main = cursor,
                          !.x = RAdd(RAdd(f.container_x, cp), R(item.style.margin.left)),
                          !.y = RAdd(RAdd(f.container_y, cursor), R(item.style.margin.top)),
                          !.w = item.final_cross, !.h = item.final_main]
           : item \in {f.items[f.lines[f.li][f.pos]]},
             cursor \in {IF f.pos > 1 THEN RAdd(f.cursor_main, f.between_gap)
                         ELSE f.cursor_main},
             cp \in {cross_pos(f.items[f.lines[f.li][f.pos]], f.align_items,
                               f.line_cross_offset, f.line_cross_size)} })

\* The head of the placement loop body for the item at f.pos: the cursor is
\* advanced by the gap and (x, y, w, h) are computed.
PlaceItem(f) ==
    Pick({ IF IsRow(f.direction)
           THEN [f EXCEPT !.cursor_main = cursor,
                          !.x = RAdd(f.container_x, cursor), !.y = RAdd(f.container_y, cp),
                          !.w = item.final_main, !.h = item.final_cross]
           ELSE [f EXCEPT !.cursor_main = cursor,
                          !.x = RAdd(f.container_x, cp), !.y = RAdd(f.container_y, cursor),
                          !.w = item.final_cross, !.h = item.final_main]
           : item \in {f.items[f.lines[f.li][f.pos]]},
             cursor \in {IF f.pos > 1 THEN RAdd(f.cursor_main, f.between_gap)
                         ELSE f.cursor_main},
             cp \in {cross_pos(f.items[f.lines[f.li][f.pos]], f.align_items,
                               f.line_cross_offset, f.line_cross_size)} })

\* A variant that stacks the lines without the cross gap.
Advance_NoCrossGap(f) ==
    IF f.pos < Len(f.lines[f.li])
    THEN [f EXCEPT !.cursor_main = RAdd(@, f.items[f.lines[f.li][f.pos]].final_main),
                   !.pos = f.pos + 1, !.pc = "write"]
    ELSE Pick({ IF f.li < Len(f.lines) THEN StartLine(f2, f.li + 1)
                ELSE [f2 EXCEPT !.pc = "return"]
                : f2 \in {[f EXCEPT
                             !.cursor_main =
                                 RAdd(@, f.items[f.lines[f.li][f.pos]].final_main),
                             !.line_cross_offset =
                                 RAdd(@, f.line_cross_size)]} })

\* The tail of the placement loop body, and of the line loop body after the
\* last item of a line; pc "return" when the last line is done.
Advance(f) ==
    IF f.pos < Len(f.lines[f.li])
    THEN [f EXCEPT !.cursor_main = RAdd(@, f.items[f.lines[f.li][f.pos]].final_main),
                   !.pos = f.pos + 1, !.pc = "write"]
    ELSE Pick({ IF f.li < Len(f.lines) THEN StartLine(f2, f.li + 1)
                ELSE [f2 EXCEPT !.pc = "return"]
                : f2 \in {[f EXCEPT
                             !.cursor_main =
                                 RAdd(@, f.items[f.lines[f.li][f.pos]].final_main),
                             !.line_cross_offset =
                                 RAdd(@, RAdd(f.line_cross_size, f.cross_gap))]} })

\* A variant that writes the position and the style, not the size.
FirstWrite_PositionOnly(nd, f, item) ==
    [nd EXCEPT !.bounds = [@ EXCEPT !.x = f.x, !.y = f.y], !.style = item.style]

\* The layout record after the first write of the placement loop body.
FirstWrite(nd, f, item) ==
    [nd EXCEPT !.bounds = [x |-> f.x, y |-> f.y, width |-> f.w, height |-> f.h],
               !.style = item.style]

\* A variant that re-applies the size but not the style.
SecondWrite_SizeOnly(nd, f, item) ==
    [nd EXCEPT !.bounds = [@ EXCEPT !.width = f.w, !.height = f.h]]

\* A variant without the write.
SecondWrite_Skipped(nd, f, item) == nd

\* The layout record after the write that follows the callback.
SecondWrite(nd, f, item) ==
    [nd EXCEPT !.bounds = [@ EXCEPT !.width = f.w, !.height = f.h],
               !.style = item.style]

Top == stack[Len(stack)]
CurItem(f) == f.items[f.lines[f.li][f.pos]]
SetTop(f) == [stack EXCEPT ![Len(stack)] = f]
Pop == SubSeq(stack, 1, Len(stack) - 1)

\* The bounds one call writes, callbacks aside: the placement loop run over
\* every line, as a function from the node of each item to its rectangle.
RECURSIVE RunPlacement(_, _)
RunPlacement(f, acc) ==
    IF f.pc = "return" THEN acc
    ELSE LET g == PlaceItem(f)
         IN  RunPlacement(Advance(g),
                          acc @@ (CurItem(g).node :>
                                    [x |-> g.x, y |-> g.y, width |-> g.w, height |-> g.h]))

PassRects(T, c, cs) ==
    LET f == NewFrame(T, c, cs)
    IN  IF f.items = <<>> THEN <<>> ELSE RunPlacement(StartLine(f, 1), <<>>)

-----------------------------------------------------------------------------
(* The recursive-layout callback, ctx.layout_node(node, x, y) *)

\* What a call on a leaf may leave in the leaf's record.  The leaf is placed
\* at the (x, y) of the call moved by its left and top margin (the layout
\* margin_tests.rs expects); its size is left alone, set to the size the leaf
\* declares in its style, or set to any other size together with the style.
LeafLayouts(nd) ==
    LET placed == [nd.bounds EXCEPT !.x = RAdd(@, R(nd.style.margin.left)),
                                    !.y = RAdd(@, R(nd.style.margin.top))]
        declared == [placed EXCEPT
                       !.width = IF PositivePx(nd.style.width) THEN to_px(nd.style.width)
                                 ELSE R(DefaultWidth),
                       !.height = IF PositivePx(nd.style.height) THEN to_px(nd.style.height)
                                  ELSE R(DefaultHeight)]
    IN  { [nd EXCEPT !.bounds = placed],
          [nd EXCEPT !.bounds = declared],
          [nd EXCEPT !.bounds = [placed EXCEPT !.width = R(7), !.height = R(9)],
                     !.style = DefaultStyle] }

\* What the log keeps of a call: the node, the arguments, the nesting depth
\* and the node's layout record as the callback finds it.
CallRecord(n, f) ==
    [node |-> n, x |-> f.x, y |-> f.y, depth |-> Len(stack),
     bounds |-> nodes[n].bounds, style |-> nodes[n].style]

-----------------------------------------------------------------------------
(* RefCell guards *)

Guard(n, kind, depth) == [node |-> n, kind |-> kind, depth |-> depth]

\* RefCell: a mutable borrow needs the cell free, a shared one needs it free
\* of a mutable guard.
Conflicts(n, kind) ==
    \E g \in borrows : g.node = n /\ (kind = "mut" \/ g.kind = "mut")

\* The guards the call at `depth` on container c still holds when it reaches
\* the line loop: `container.borrow()` lives inside the two blocks that read
\* the bounds and clone the child list, and the borrows of resolve_style and
\* of the text check end with them.
GuardsAfterSetup(c, depth) == {}

\* A variant in which the guard of the first write lives on to the end of
\* the loop body.
GuardsAfterFirstWrite_Kept(n, depth) == {Guard(n, "mut", depth)}

\* The guards left by the first write: `item.node.borrow_mut()` is a local
\* of the block that does the write.
GuardsAfterFirstWrite(n, depth) == {}

\* The guards left when an iteration of the placement loop of the call at
\* `depth` ends: the locals of the loop body are dropped.
GuardsAfterIteration(depth) == {g \in borrows : g.depth # depth}

-----------------------------------------------------------------------------
(* Actions *)

MaxPasses == 2

\* A pass over the root container is entered: everything up to the first
\* write of the placement loop, or the early return when no item participates.
LayoutRoot ==
    /\ stack = <<>>
    /\ passes < MaxPasses
    /\ \E f \in {NewFrame(nodes, Root, nodes[Root].style)} :
         \E T \in {[nodes EXCEPT ![Root].children = ChildListAfterSort(@, f.sorted)]} :
           /\ nodes' = T
           /\ IF f.items = <<>>
              THEN /\ stack' = <<>>
                   /\ passes' = passes + 1
                   /\ firstNodes' = IF passes = 0 THEN T ELSE firstNodes
              ELSE /\ stack' = <<StartLine(f, 1)>>
                   /\ UNCHANGED <<passes, firstNodes>>
    /\ preNodes' = nodes
    /\ log' = <<>>
    /\ conflict' = (conflict \/ Conflicts(Root, "shared"))
    /\ borrows' = borrows \cup GuardsAfterSetup(Root, 1)
    /\ UNCHANGED <<sheet, tree0, returned, jin, jout, engineVars>>

\* The first write of the placement loop body.
WriteBounds ==
    /\ stack # <<>>
    /\ Top.pc = "write"
    /\ \E f \in {PlaceItem(Top)} :
           /\ nodes' = [nodes EXCEPT ![CurItem(f).node] = FirstWrite(@, f, CurItem(f))]
           /\ stack' = SetTop([f EXCEPT !.pc = "callback"])
           /\ conflict' = (conflict \/ Conflicts(CurItem(f).node, "mut"))
           /\ borrows' = borrows \cup GuardsAfterFirstWrite(CurItem(f).node, Len(stack))
    /\ UNCHANGED <<sheet, passes, log, tree0, preNodes, firstNodes, returned, jin, jout, engineVars>>

\* ctx.layout_node on an item without children.
CallbackLeaf ==
    /\ stack # <<>>
    /\ Top.pc = "callback"
    /\ \E f \in {Top} : \E n \in {CurItem(f).node} :
           /\ nodes[n].children = <<>>
           /\ \E r \in LeafLayouts(nodes[n]) :
                /\ nodes' = [nodes EXCEPT ![n] = r]
                /\ returned' = [node |-> n, bounds |-> r.bounds, style |-> r.style]
           /\ log' = Append(log, CallRecord(n, f))
           /\ stack' = SetTop([f EXCEPT !.pc = "override"])
           /\ conflict' = (conflict \/ Conflicts(n, "mut"))
    /\ UNCHANGED <<sheet, passes, tree0, preNodes, firstNodes, jin, jout, borrows, engineVars>>

\* ctx.layout_node on an item with children: the engine is re-entered on the
\* item, with the item's cached style as the container style.
CallbackNested ==
    /\ stack # <<>>
    /\ Top.pc = "callback"
    /\ \E f \in {Top} : \E n \in {CurItem(f).node} :
           /\ nodes[n].children # <<>>
           /\ \E nf \in {NewFrame(nodes, n, nodes[n].style)} :
                /\ nodes' = [nodes EXCEPT ![n].children = ChildListAfterSort(@, nf.sorted)]
                /\ stack' = IF nf.items = <<>> THEN SetTop([f EXCEPT !.pc = "override"])
                            ELSE Append(SetTop([f EXCEPT !.pc = "override"]),
                                        StartLine(nf, 1))
           /\ log' = Append(log, CallRecord(n, f))
           /\ conflict' = (conflict \/ Conflicts(n, "shared"))
           /\ borrows' = borrows \cup GuardsAfterSetup(n, Len(stack) + 1)
    /\ UNCHANGED <<sheet, passes, tree0, preNodes, firstNodes, returned, jin, jout, engineVars>>

\* The second write of the placement loop body, the advance of the cursor,
\* and, after the last item of the last line, the return of the call.
OverrideSize ==
    /\ stack # <<>>
    /\ Top.pc = "override"
    /\ \E f \in {Top} :
         \E T \in {[nodes EXCEPT ![CurItem(f).node] = SecondWrite(@, f, CurItem(f))]} :
         \E f1 \in {Advance(f)} :
           /\ nodes' = T
           /\ IF f1.pc = "return"
              THEN /\ stack' = Pop
                   /\ passes' = IF Len(stack) = 1 THEN passes + 1 ELSE passes
                   /\ firstNodes' = IF Len(stack) = 1 /\ passes = 0 THEN T ELSE firstNodes
              ELSE /\ stack' = SetTop(f1)
                   /\ UNCHANGED <<passes, firstNodes>>
           /\ conflict' = (conflict \/ Conflicts(CurItem(f).node, "mut"))
           /\ borrows' = GuardsAfterIteration(Len(stack))
    /\ UNCHANGED <<sheet, log, tree0, preNodes, returned, jin, jout, engineVars>>

Next == LayoutRoot \/ WriteBounds \/ CallbackLeaf \/ CallbackNested \/ OverrideSize

\* A stand-alone call of justify_offsets.
CallJustify ==
    /\ ~jout.done
    /\ jout' = [done |-> TRUE,
                r |-> justify_offsets(jin.justify, jin.direction, jin.leftover,
                                      jin.base_gap, jin.item_count)]
    /\ UNCHANGED <<nodes, sheet, stack, passes, log, tree0, preNodes, firstNodes, returned, jin,
                   borrows, conflict, engineVars>>

NextJustify == CallJustify

MaxHandles == 2
MaxRuns == 3

\* The Engine and its clones, one per caller.
Handles == 1..MaxHandles

\* Engine::new(): the lock is free and nobody is in run.
EngineNew ==
    /\ running = 0
    /\ runpc = [h \in Handles |-> "idle"]
    /\ loops = {}
    /\ runlog = <<>>

\* The latest call of run made through handle h gets result r.
Returns(h, r) ==
    LET mine == {k \in 1..Len(runlog) : runlog[k].handle = h}
        last == CHOOSE k \in mine : \A j \in mine : j <= k
    IN  [runlog EXCEPT ![last].result = r]

\* Engine::run is called through handle h: running.try_lock().  A held lock
\* makes the call return AlreadyRunning; otherwise the guard is held until the
\* call returns.
RunTryLock(h) ==
    /\ runpc[h] = "idle"
    /\ Len(runlog) < MaxRuns
    /\ IF running # 0
       THEN /\ runlog' = Append(runlog, [handle |-> h, started_before |-> TRUE,
                                         locked |-> FALSE, looped |-> FALSE,
                                         result |-> "AlreadyRunning"])
            /\ UNCHANGED <<running, runpc>>
       ELSE /\ running' = h
            /\ runpc' = [runpc EXCEPT ![h] = "locked"]
            /\ runlog' = Append(runlog, [handle |-> h, started_before |-> runlog # <<>>,
                                         locked |-> TRUE, looped |-> FALSE,
                                         result |-> "pending"])
    /\ UNCHANGED <<loops, layoutVars>>

\* windowing::run is entered and the event loop starts.
EnterEventLoop(h) ==
    /\ runpc[h] = "locked"
    /\ runpc' = [runpc EXCEPT ![h] = "looping"]
    /\ loops' = loops \cup {h}
    /\ runlog' = [Returns(h, "pending") EXCEPT ![Len(runlog)].looped = TRUE]
    /\ UNCHANGED <<running, layoutVars>>

\* windowing::run returns an error before or after the event loop ran: run
\* returns UnknownError and the guard is dropped.
RunFails(h) ==
    /\ runpc[h] \in {"locked", "looping"}
    /\ runpc' = [runpc EXCEPT ![h] = "idle"]
    /\ loops' = loops \ {h}
    /\ running' = 0
    /\ runlog' = Returns(h, "UnknownError")
    /\ UNCHANGED layoutVars

\* The event loop exits (Escape, CloseRequested): run returns Ok and the
\* guard is dropped.
ExitEventLoop(h) ==
    /\ runpc[h] = "looping"
    /\ runpc' = [runpc EXCEPT ![h] = "idle"]
    /\ loops' = loops \ {h}
    /\ running' = 0
    /\ runlog' = Returns(h, "Ok")
    /\ UNCHANGED layoutVars

NextEngine ==
    \E h \in Handles :
        RunTryLock(h) \/ EnterEventLoop(h) \/ RunFails(h) \/ ExitEventLoop(h)

-----------------------------------------------------------------------------
(* Trees *)

MaxChildren == 3

Leaf(text, attrs, style) == [text |-> text, attrs |-> attrs, style |-> style, grand |-> <<>>]
Box(attrs, style, grand) == [text |-> NoText, attrs |-> attrs, style |-> style, grand |-> grand]

RECURSIVE GrandBefore(_, _)
GrandBefore(kids, i) ==
    IF i <= 1 THEN 0 ELSE GrandBefore(kids, i - 1) + Len(kids[i - 1].grand)

\* The tree of a root container whose children are `kids`, each with its
\* own children `grand`; every layout record but the root's starts zeroed.
Tree(rootStyle, rootBounds, kids) ==
    LET n == Len(kids)
        first(i) == n + GrandBefore(kids, i)
        owner(id) == CHOOSE i \in 1..n : first(i) < id /\ id <= first(i + 1)
        mk(t, children) == [text |-> t.text, attrs |-> t.attrs, style |-> t.style,
                            children |-> children, bounds |-> Rect(0, 0, 0, 0)]
    IN  [id \in 0..first(n + 1) |->
           IF id = 0
           THEN [text |-> NoText, attrs |-> OtherAttr, style |-> rootStyle,
                 children |-> [i \in 1..n |-> i], bounds |-> rootBounds]
           ELSE IF id <= n
           THEN mk(kids[id], [j \in 1..Len(kids[id].grand) |-> first(id) + j])
           ELSE mk(kids[owner(id)].grand[id - first(owner(id))], <<>>)]

\* Sequences over S of length lo..hi.
SeqsOf(S, lo, hi) == UNION {[1..n -> S] : n \in lo..hi}

Sized(w, h) == [DefaultStyle EXCEPT !.width = Px(w), !.height = Px(h)]

NoJustify == [justify |-> "flex-start", direction |-> "row", leftover |-> R(0),
              base_gap |-> R(0), item_count |-> 0]

InitTree(T, rules) ==
    /\ nodes = T
    /\ sheet = rules
    /\ stack = <<>>
    /\ passes = 0
    /\ log = <<>>
    /\ tree0 = T
    /\ preNodes = T
    /\ firstNodes = T
    /\ returned = [node |-> Root, bounds |-> T[Root].bounds, style |-> T[Root].style]
    /\ jin = NoJustify
    /\ jout = [done |-> TRUE, r |-> <<R(0), R(0)>>]
    /\ EngineNew
    /\ borrows = {}
    /\ conflict = FALSE

-----------------------------------------------------------------------------
(* Flexing: lines of sized items with grow and shrink factors *)

FlexRootStyles ==
    { [Sized(200, 120) EXCEPT !.display = "flex", !.flex_direction = v[1],
                              !.flex_wrap = v[2], !.gap = v[3]] :
        v \in { <<"row", Unset, Px(10)>>, <<"row", "wrap", None>>,
                <<"column", Unset, None>>, <<"column", "wrap", Px(10)>> } }

NestedKid ==
    Box(OtherAttr, [DefaultStyle EXCEPT !.display = "flex", !.flex_direction = "column"],
        << Leaf(NoText, OtherAttr, Sized(60, 40)),
           Leaf(NoText, OtherAttr, [Sized(60, 40) EXCEPT !.flex_grow = Some(1)]) >>)

FlexKids ==
    { Leaf(NoText, OtherAttr, Sized(60, 40)),
      Leaf(NoText, OtherAttr, [Sized(60, 40) EXCEPT !.flex_grow = Some(1),
                                                    !.flex_shrink = Some(1)]),
      Leaf(NoText, OtherAttr, [Sized(90, 60) EXCEPT !.flex_grow = Some(2),
                                                    !.flex_shrink = Some(2)]),
      NestedKid }

\* Scenario B: a 400x200 row container, three 60x40 children, the second
\* with flex-grow: 1.
ScenarioB ==
    Tree([Sized(400, 200) EXCEPT !.display = "flex", !.flex_direction = "row",
                                 !.justify_content = "flex-start"],
         Rect(0, 0, 400, 200),
         << Leaf(NoText, OtherAttr, Sized(60, 40)),
            Leaf(NoText, OtherAttr, [Sized(60, 40) EXCEPT !.flex_grow = Some(1)]),
            Leaf(NoText, OtherAttr, Sized(60, 40)) >>)

\* Scenario C, the tree and the stylesheet of test_nested_flex_layout.
ScenarioCSheet ==
    << Rule("flex_container", <<Decl("display", "flex"), Decl("flex_direction", "row"),
                                Decl("width", Px(400)), Decl("height", Px(200))>>),
       Rule("child1", <<Decl("display", "flex"), Decl("flex_direction", "column"),
                        Decl("flex_wrap", "wrap")>>),
       Rule("grow", <<Decl("flex_grow", Some(1))>>),
       Rule("child2", <<Decl("flex_grow", Some(1))>>),
       Rule("nested_child", <<Decl("height", Px(40)), Decl("width", Px(60))>>) >>

ScenarioC ==
    LET nested == Leaf(NoText, Class(<<"nested_child">>), DefaultStyle)
        grow == Leaf(NoText, Class(<<"nested_child", "grow">>), DefaultStyle)
    IN  Tree([Sized(400, 200) EXCEPT !.display = "flex", !.flex_direction = "row"],
             Rect(0, 0, 400, 200),
             << Box(Class(<<"child1">>), DefaultStyle, <<nested, grow, nested, nested>>),
                Leaf(NoText, Class(<<"child2">>), DefaultStyle) >>)

InitFlex ==
    \/ \E rs \in FlexRootStyles, kids \in SeqsOf(FlexKids, 1, MaxChildren) :
          InitTree(Tree(rs, Rect(0, 0, 200, 120), kids), <<>>)
    \/ InitTree(ScenarioB, <<>>)
    \/ InitTree(ScenarioC, ScenarioCSheet)

SpecFlex == InitFlex /\ [][Next]_vars

-----------------------------------------------------------------------------
(* Item collection: text children, attributes, classes and order values *)

CollectSheet ==
    << Rule("early", <<Decl("order", Some(0 - 1)), Decl("width", Px(50)),
                       Decl("height", Px(20))>>),
       Rule("wide", <<Decl("width", Px(90)), Decl("height", Px(40))>>) >>

\* A child with whitespace-only text, no attributes, and a child of its own.
TextBox ==
    [Box(NoAttrs, [DefaultStyle EXCEPT !.display = "flex"],
         << Leaf(Txt(<<" ">>), NoAttrs, DefaultStyle),
            Leaf(NoText, OtherAttr, [Sized(20, 20) EXCEPT !.order = Some(1)]),
            Leaf(NoText, Class(<<"early">>), DefaultStyle) >>)
       EXCEPT !.text = Txt(<<" ", "\n">>)]

CollectKids ==
    { Leaf(Txt(<<" ">>), OtherAttr, Sized(60, 40)),
      Leaf(NoText, Class(<<"wide", "early">>), DefaultStyle),
      Leaf(NoText, OtherAttr, [Sized(40, 40) EXCEPT !.order = Some(1)]),
      Leaf(Txt(<<" ", "\n", "\t">>), NoAttrs, DefaultStyle),
      Leaf(Txt(<<" ", "x">>), NoAttrs, Sized(30, 20)),
      TextBox }

CollectRootStyle ==
    [Sized(200, 120) EXCEPT !.display = "flex", !.flex_direction = "row",
                            !.flex_wrap = "wrap", !.gap = Px(10)]

InitCollect ==
    \E kids \in SeqsOf(CollectKids, 1, MaxChildren) :
        InitTree(Tree(CollectRootStyle, Rect(0, 0, 200, 120), kids), CollectSheet)

SpecCollect == InitCollect /\ [][Next]_vars

-----------------------------------------------------------------------------
(* Properties *)

\* The lines of frame f that have been flexed so far.
FlexedLines(f) == 1..f.li

Finished == stack = <<>> /\ passes >= 1

NatGrow(item) == IF item.style.flex_grow.k = "some" THEN item.style.flex_grow.v ELSE 0

LineGaps(f, li) == RMul(R(Len(f.lines[li]) - 1), f.main_gap)
LineBases(f, li) ==
    SumSeq([p \in 1..Len(f.lines[li]) |-> f.items[f.lines[li][p]].base_main])
LineFinals(f, li) ==
    SumSeq([p \in 1..Len(f.lines[li]) |-> f.items[f.lines[li][p]].final_main])
LineGrows(f, li) ==
    SumSeq([p \in 1..Len(f.lines[li]) |-> R(NatGrow(f.items[f.lines[li][p]]))])
LineFree(f, li) == RSub(f.available_main, RAdd(LineBases(f, li), LineGaps(f, li)))

\* C1 (grow conservation): on every line with positive free space and a
\* positive sum of flex-grow, each item's final main size is
\* base_main + free_space * (own_grow / total_grow), and the final main sizes
\* plus the gaps add up to available_main; in Scenario B the grow item is 280
\* wide and the sibling after it starts at x = 340.
C1_GrowConservation ==
    /\ \A d \in 1..Len(stack) : \A li \in FlexedLines(stack[d]) :
         LET f == stack[d]
             line == f.lines[li]
             free == LineFree(f, li)
             grows == LineGrows(f, li)
         IN  (RLt(R(0), free) /\ RLt(R(0), grows)) =>
               /\ \A p \in 1..Len(line) :
                    LET it == f.items[line[p]]
                    IN  it.final_main =
                          RAdd(it.base_main, RMul(free, RDiv(R(NatGrow(it)), grows)))
               /\ RAdd(LineFinals(f, li), LineGaps(f, li)) = f.available_main
    /\ (tree0 = ScenarioB /\ Finished) =>
          /\ nodes[2].bounds.width = R(280)
          /\ nodes[3].bounds.x = R(340)

C1_Witness ==
    \E d \in 1..Len(stack) : \E li \in FlexedLines(stack[d]) :
        LET f == stack[d]
            line == f.lines[li]
        IN  /\ f.pc = "override"
            /\ RLt(R(0), f.main_gap)
            /\ RLt(R(0), LineFree(f, li))
            /\ \E p, q \in 1..Len(line) :
                 /\ NatGrow(f.items[line[p]]) > 0
                 /\ NatGrow(f.items[line[q]]) > NatGrow(f.items[line[p]])

\* C2 (no-shrink default): on every line, whatever the free space and the
\* flex-shrink of the other items, an item whose flex-shrink is unset has a
\* final main size that is not smaller than its base main size.
C2_NoShrinkDefault ==
    \A d \in 1..Len(stack) : \A li \in FlexedLines(stack[d]) :
        \A p \in 1..Len(stack[d].lines[li]) :
            LET it == stack[d].items[stack[d].lines[li][p]]
            IN  it.style.flex_shrink.k = "none" => ~RLt(it.final_main, it.base_main)

C2_Witness ==
    \E d \in 1..Len(stack) : \E li \in FlexedLines(stack[d]) :
        LET f == stack[d]
            line == f.lines[li]
        IN  /\ f.pc = "override"
            /\ RLt(LineFree(f, li), R(0))
            /\ \E p, q \in 1..Len(line) :
                 /\ f.items[line[p]].style.flex_shrink.k = "none"
                 /\ RLt(f.items[line[q]].final_main, f.items[line[q]].base_main)

-----------------------------------------------------------------------------
(* Properties of the collection, the writes and the callbacks *)

RECURSIVE Flatten(_)
Flatten(ls) == IF ls = <<>> THEN <<>> ELSE Head(ls) \o Flatten(Tail(ls))

\* The nodes of the items of frame f, line by line.
ItemNodes(f) == [k \in 1..Len(Flatten(f.lines)) |-> f.items[Flatten(f.lines)[k]].node]

\* The item of frame f at position k of that sequence.
ItemAt(f, k) == f.items[Flatten(f.lines)[k]]

RECURSIVE LensBefore(_, _)
LensBefore(lines, li) == IF li <= 1 THEN 0 ELSE LensBefore(lines, li - 1) + Len(lines[li - 1])

\* How many items of frame f the placement loop has finished with.
Before(f) == LensBefore(f.lines, f.li) + f.pos - 1

\* How many callbacks frame f has made.
Called(f) == Before(f) + (IF f.pc = "override" THEN 1 ELSE 0)

IndexIn(seq, c) == CHOOSE i \in 1..Len(seq) : seq[i] = c

Elems(seq) == {seq[i] : i \in 1..Len(seq)}

\* A child with a text payload of whitespace only, no attribute and no child.
WhitespaceOnlyText(T, c) ==
    /\ T[c].text.k = "some"
    /\ T[c].attrs.k = "none"
    /\ T[c].children = <<>>
    /\ \A i \in 1..Len(T[c].text.s) : T[c].text.s[i] \in {" ", "\n", "\t"}

Participating(T, c) ==
    LET Keep(x) == ~WhitespaceOnlyText(T, x) IN SelectSeq(T[c].children, Keep)

\* The tree without the whitespace-only text children of the root.
WithoutBlank(T) == [T EXCEPT ![Root].children = Participating(T, Root)]

\* The calls made by the frame at depth d of the stack.
CallsOf(d) ==
    LET shallow == {k \in 1..Len(log) : log[k].depth < d}
        from == IF shallow = {} THEN 1
                ELSE 1 + (CHOOSE k \in shallow : \A j \in shallow : j <= k)
        AtDepth(r) == r.depth = d
    IN  SelectSeq(SubSeq(log, from, Len(log)), AtDepth)

NodesOf(calls) == [k \in 1..Len(calls) |-> calls[k].node]

BoundsOf(f) == [x |-> f.x, y |-> f.y, width |-> f.w, height |-> f.h]

\* C3 (determinism/idempotence): once a second pass over the same tree and
\* stylesheet has returned, every node's bounds are the bounds it had when the
\* first pass returned, although the first pass cached the resolved styles
\* and the second pass resolved from those.
C3_Idempotence ==
    (stack = <<>> /\ passes >= 2) =>
        \A n \in DOMAIN nodes : nodes[n].bounds = firstNodes[n].bounds

C3_Witness ==
    /\ stack = <<>>
    /\ passes = 2
    /\ \E c \in Elems(nodes[Root].children) :
         /\ tree0[c].style # firstNodes[c].style
         /\ nodes[c].bounds.x # R(0)
         /\ nodes[c].bounds.width = R(50)
    /\ \E c \in DOMAIN nodes : nodes[c].children # <<>> /\ c # Root

\* C4 (whitespace filtering): a whitespace-only text child without attribute
\* and child is an item of no frame, is never handed to the callback and keeps
\* its layout record; every other child is an item; when the pass has returned
\* the other children have the bounds the pass computes on the tree without
\* the whitespace-only children.
C4_WhitespaceFiltering ==
    /\ \A d \in 1..Len(stack) :
         Elems(ItemNodes(stack[d])) =
            {c \in Elems(nodes[stack[d].container].children) : ~WhitespaceOnlyText(nodes, c)}
    /\ \A k \in 1..Len(log) : ~WhitespaceOnlyText(nodes, log[k].node)
    /\ \A c \in DOMAIN nodes : WhitespaceOnlyText(nodes, c) => nodes[c] = tree0[c]
    /\ Finished =>
         LET absent == PassRects(WithoutBlank(preNodes), Root, preNodes[Root].style)
             kept == Participating(preNodes, Root)
         IN  /\ Elems(NodesOf(log)) \cap Elems(nodes[Root].children) = Elems(kept)
             /\ \A c \in Elems(kept) : nodes[c].bounds = absent[c]

C4_Witness ==
    /\ Finished
    /\ LET kids == nodes[Root].children
       IN  /\ Len(kids) = 3
           /\ WhitespaceOnlyText(nodes, kids[2])
           /\ nodes[kids[1]].text.k = "some" /\ nodes[kids[1]].attrs.k = "other"
           /\ nodes[kids[3]].text.k = "some" /\ nodes[kids[3]].children # <<>>
           /\ nodes[kids[3]].bounds.x = RAdd(nodes[kids[1]].bounds.width, R(10))

\* C5 (order sorting): in every frame the items, line by line, are the
\* participating children of the container in ascending resolved order
\* (unset = 0), children of equal order in their child-list order.
C5_OrderSorting ==
    \A d \in 1..Len(stack) :
        LET f == stack[d]
            kids == nodes[f.container].children
            seq == ItemNodes(f)
            key(k) == IF ItemAt(f, k).style.order.k = "some"
                      THEN ItemAt(f, k).style.order.v ELSE 0
        IN  /\ Len(seq) = Len(Participating(nodes, f.container))
            /\ Elems(seq) = Elems(Participating(nodes, f.container))
            /\ \A k \in 1..(Len(seq) - 1) :
                 \/ key(k) < key(k + 1)
                 \/ key(k) = key(k + 1) /\ IndexIn(kids, seq[k]) < IndexIn(kids, seq[k + 1])

C5_Witness ==
    /\ Len(stack) = 1
    /\ stack[1].pc = "override"
    /\ LET f == stack[1]
           seq == ItemNodes(f)
       IN  /\ Len(seq) = 3
           /\ seq # Participating(nodes, Root)
           /\ ItemAt(f, 1).style.order = Some(0 - 1)
           /\ ItemAt(f, 2).style.order = None
           /\ ItemAt(f, 3).style.order = None
           /\ Len(f.lines) >= 2

\* What stays as it was over every step: the child lists, texts and
\* attributes of all nodes; and the only record a step writes is the record
\* of the item the innermost frame is at, a participating direct child of
\* that frame's container.
C6_Step ==
    \A n \in DOMAIN nodes :
        /\ nodes'[n].children = nodes[n].children
        /\ nodes'[n].text = nodes[n].text
        /\ nodes'[n].attrs = nodes[n].attrs
        /\ nodes'[n] # nodes[n] =>
             /\ stack # <<>>
             /\ n = CurItem(Top).node
             /\ n \in Elems(Participating(nodes, Top.container))

\* While a frame is in flight its container's record is the one the frame
\* was entered with; after the pass the root's record and the child lists are
\* those of the tree before the pass.
C6_State ==
    /\ \A d \in 1..Len(stack) :
         /\ nodes[stack[d].container].style = stack[d].cstyle
         /\ nodes[stack[d].container].bounds.x = stack[d].container_x
         /\ nodes[stack[d].container].bounds.y = stack[d].container_y
    /\ nodes[Root] = tree0[Root]
    /\ \A n \in DOMAIN nodes : nodes[n].children = tree0[n].children

\* C6 (frame of a pass): callbacks aside, a pass writes only bounds and cached
\* style of the participating direct children of its container; the
\* container's own record and its ordered child list are after the pass what
\* they were before it, whatever the order values.
C6_Frame == []C6_State /\ [][C6_Step]_vars

C6_Witness ==
    /\ Finished
    /\ nodes[Root].children = tree0[Root].children
    /\ LET AtRoot(r) == r.depth = 1
           called == NodesOf(SelectSeq(log, AtRoot))
       IN  /\ Len(called) = 3
           /\ called # Participating(nodes, Root)
    /\ \E c \in Elems(nodes[Root].children) : nodes[c].bounds # tree0[c].bounds

-----------------------------------------------------------------------------
(* justify_offsets on its own *)

MaxItems == 2

JustifyModes ==
    {"flex-start", "flex-end", "center", "space-between", "space-around", "space-evenly"}

Directions == {"row", "row-reverse", "column", "column-reverse"}

InitJustify ==
    /\ nodes = ScenarioB
    /\ sheet = <<>>
    /\ stack = <<>>
    /\ passes = MaxPasses
    /\ log = <<>>
    /\ tree0 = ScenarioB
    /\ preNodes = ScenarioB
    /\ firstNodes = ScenarioB
    /\ returned = [node |-> Root, bounds |-> ScenarioB[Root].bounds,
                   style |-> ScenarioB[Root].style]
    /\ jin \in [justify : JustifyModes, direction : Directions,
                leftover : {R(0), R(30), R(100)}, base_gap : {R(0), R(10)},
                item_count : 0..MaxItems]
    /\ jout = [done |-> FALSE, r |-> <<R(0), R(0)>>]
    /\ EngineNew
    /\ borrows = {}
    /\ conflict = FALSE

SpecJustify == InitJustify /\ [][NextJustify]_vars

\* C7 as stated: for every direction, leftover and base gap, space-between
\* with at most one item gives the start offset and the gap that flex-start
\* gives for the same inputs, and one item is placed at main offset 0.
C7_SameAsFlexStart ==
    (jout.done /\ jin.justify = "space-between" /\ jin.item_count <= 1) =>
        /\ jout.r = justify_offsets("flex-start", jin.direction, jin.leftover,
                                    jin.base_gap, jin.item_count)
        /\ jin.item_count = 1 => jout.r[1] = R(0)

\* C7 (justify degenerate case), amended: space-between with at most one
\* item gives start offset 0 and the base gap unchanged, for every direction,
\* leftover and base gap; that is what flex-start gives in row and column
\* (and in any direction with no item or no leftover), and what flex-end gives
\* in row-reverse and column-reverse.
C7_DegenerateSpaceBetween ==
    (jout.done /\ jin.justify = "space-between" /\ jin.item_count <= 1) =>
        /\ jout.r = <<R(0), jin.base_gap>>
        /\ (~IsReverse(jin.direction) \/ jin.item_count = 0 \/ jin.leftover = R(0)) =>
              jout.r = justify_offsets("flex-start", jin.direction, jin.leftover,
                                       jin.base_gap, jin.item_count)
        /\ IsReverse(jin.direction) =>
              jout.r = justify_offsets("flex-end", jin.direction, jin.leftover,
                                       jin.base_gap, jin.item_count)

C7_Witness ==
    /\ jout.done
    /\ jin.justify = "space-between"
    /\ jin.item_count = 1
    /\ jin.direction = "row-reverse"
    /\ jin.leftover = R(100)
    /\ jin.base_gap = R(10)
    /\ jout.r = <<R(0), R(10)>>

-----------------------------------------------------------------------------
(* Writes and callbacks *)

\* The width and height the pass computed for an item.
UsedWidth(f, item) == IF f.direction \in {"row", "row-reverse"} THEN item.final_main
                      ELSE item.final_cross
UsedHeight(f, item) == IF f.direction \in {"row", "row-reverse"} THEN item.final_cross
                       ELSE item.final_main

\* C8 (flex-resolved size wins): every item the placement loop has finished
\* with has the axis-mapped final main and cross sizes as width and height
\* and the resolved style as cached style, whatever the callback left in its
\* record; when the pass has returned that holds of every participating child.
C8_FlexSizeWins ==
    /\ \A d \in 1..Len(stack) : \A k \in 1..Before(stack[d]) :
         LET f == stack[d]
             nd == nodes[ItemNodes(f)[k]]
         IN  /\ nd.bounds.width = UsedWidth(f, ItemAt(f, k))
             /\ nd.bounds.height = UsedHeight(f, ItemAt(f, k))
             /\ nd.style = ItemAt(f, k).style
    /\ Finished =>
         LET rects == PassRects(preNodes, Root, preNodes[Root].style)
         IN  \A c \in Elems(Participating(preNodes, Root)) :
                /\ nodes[c].bounds.width = rects[c].width
                /\ nodes[c].bounds.height = rects[c].height
                /\ nodes[c].style = resolve_style(preNodes, c, preNodes[Root].style)

C8_Witness ==
    /\ Finished
    /\ returned.node \in Elems(nodes[Root].children)
    /\ returned.bounds.width # nodes[returned.node].bounds.width
    /\ returned.bounds.height # nodes[returned.node].bounds.height
    /\ returned.style # nodes[returned.node].style
    /\ nodes[returned.node].bounds.width # to_px(nodes[returned.node].style.width)

\* C9 (write, then recurse, then re-write): when the callback is invoked on
\* an item, the item's record holds the flex-resolved x, y, width, height and
\* the resolved style, and the callback gets that (x, y); every frame has
\* called the callback once on each item up to the one it is at, in line and
\* item order; a frame below the innermost one is inside the callback on its
\* current item, whose record still holds the size its parent gave it; when
\* the pass has returned every participating child has been called once.  In
\* Scenario C the nested container is called with 60x200 in its record and
\* its four children end 40, 80, 40, 40 high.
C9_WriteThenRecurse ==
    /\ \A d \in 1..Len(stack) :
         LET f == stack[d]
         IN  /\ f.pc = "callback" =>
                  /\ nodes[CurItem(f).node].bounds = BoundsOf(f)
                  /\ nodes[CurItem(f).node].style = CurItem(f).style
                  /\ f.w = UsedWidth(f, CurItem(f))
                  /\ f.h = UsedHeight(f, CurItem(f))
             /\ NodesOf(CallsOf(d)) = SubSeq(ItemNodes(f), 1, Called(f))
             /\ d < Len(stack) =>
                  /\ f.pc = "override"
                  /\ stack[d + 1].container = CurItem(f).node
                  /\ nodes[CurItem(f).node].bounds = BoundsOf(f)
                  /\ nodes[CurItem(f).node].style = CurItem(f).style
    /\ \A k \in 1..Len(log) :
         /\ log[k].bounds.x = log[k].x
         /\ log[k].bounds.y = log[k].y
    /\ Finished =>
         NodesOf(CallsOf(1)) =
            Participating([preNodes EXCEPT ![Root].children =
                              sort_by_key(preNodes, @, preNodes[Root].style)], Root)
    /\ (tree0 = ScenarioC /\ Finished) =>
         /\ log[1].node = 1 /\ log[1].bounds = Rect(0, 0, 60, 200)
         /\ nodes[1].bounds = Rect(0, 0, 60, 200)
         /\ nodes[3].bounds = Rect(0, 0, 60, 40)
         /\ nodes[4].bounds = Rect(0, 40, 60, 80)
         /\ nodes[5].bounds = Rect(0, 120, 60, 40)
         /\ nodes[6].bounds = Rect(0, 160, 60, 40)
         /\ nodes[2].bounds = Rect(60, 0, 340, 200)

C9_Witness ==
    /\ tree0 = ScenarioC
    /\ passes = 0
    /\ Len(stack) = 2
    /\ stack[2].pc = "callback"
    /\ stack[2].pos = 2
    /\ nodes[4].bounds = Rect(0, 40, 60, 80)
    /\ Len(log) = 2

-----------------------------------------------------------------------------
(* Cross sizes: containers with a definite, an unset and an auto cross size *)

AlignRootStyles ==
    { [DefaultStyle EXCEPT !.display = "flex", !.flex_direction = v[1], !.flex_wrap = v[2],
                           !.width = v[3], !.height = v[4], !.padding = Sides(10, 10, 10, 10)] :
        v \in { <<"row", Unset, Px(200), Px(120)>>, <<"row", Unset, Px(200), None>>,
                <<"row", Unset, Px(200), Auto>>, <<"row", "wrap", Px(200), Px(120)>>,
                <<"column", Unset, Px(200), Px(120)>>, <<"column", Unset, Auto, Px(120)>>,
                <<"column", "wrap", None, Px(120)>> } }

AlignKids ==
    { Leaf(NoText, OtherAttr, DefaultStyle),
      Leaf(NoText, OtherAttr, Sized(60, 40)),
      Leaf(NoText, OtherAttr, Sized(150, 150)),
      NestedKid }

InitAlign ==
    \E rs \in AlignRootStyles, kids \in SeqsOf(AlignKids, 1, MaxChildren) :
        InitTree(Tree(rs, Rect(0, 0, 200, 120), kids), <<>>)

SpecAlign == InitAlign /\ [][Next]_vars

\* The style dimension of the container on its cross axis.
CrossDimension(f) == IF f.direction \in {"row", "row-reverse"} THEN f.cstyle.height
                     ELSE f.cstyle.width

\* The largest cross size of the items of the line, before stretching.
MaxBaseCross(f, li) ==
    LET S == {f.items[f.lines[li][p]].base_cross : p \in 1..Len(f.lines[li])}
    IN  CHOOSE m \in S : \A v \in S : RLe(v, m)

Stretched(f, item) ==
    /\ (IF item.style.align_self \in {Unset, "auto"}
        THEN f.cstyle.align_items \in {Unset, "stretch"}
        ELSE item.style.align_self = "stretch")
    /\ (IF f.direction \in {"row", "row-reverse"} THEN item.style.height.k = "none"
        ELSE item.style.width.k = "none")

-----------------------------------------------------------------------------
(* Line breaking: wrap modes, exact fits and oversized items *)

LineRootStyles ==
    { [Sized(200, 120) EXCEPT !.display = "flex", !.flex_direction = "row",
                              !.flex_wrap = w, !.gap = g] :
        w \in {Unset, "nowrap", "wrap", "wrap-reverse"}, g \in {None, Px(10)} }

LineKids ==
    { Leaf(NoText, OtherAttr, Sized(100, 40)),
      Leaf(NoText, OtherAttr, Sized(95, 40)),
      Leaf(NoText, OtherAttr, Sized(250, 40)),
      NestedKid }

InitLines ==
    \E rs \in LineRootStyles, kids \in SeqsOf(LineKids, 1, MaxChildren) :
        InitTree(Tree(rs, Rect(0, 0, 200, 120), kids), <<>>)

SpecLines == InitLines /\ [][Next]_vars

\* Base main sizes plus gaps of the items lo..hi of frame f.
RunUsed(f, lo, hi) ==
    RAdd(SumSeq([k \in 1..(hi - lo + 1) |-> f.items[lo + k - 1].base_main]),
         RMul(R(hi - lo), f.main_gap))

\* The first item of the line that holds item i.
LineStart(f, i) == f.lines[CHOOSE l \in 1..Len(f.lines) : InLine(f.lines[l], i)][1]

\* C11 (no wrapping means one line): a frame whose container has flex-wrap
\* nowrap or unset has exactly one line, and the line holds every item, also
\* when the items overflow the available main space.
C11_NoWrapOneLine ==
    \A d \in 1..Len(stack) :
        stack[d].cstyle.flex_wrap \in {Unset, "nowrap"} =>
            /\ Len(stack[d].lines) = 1
            /\ stack[d].lines[1] = [k \in 1..Len(stack[d].items) |-> k]

C11_Witness ==
    /\ Len(stack) = 1
    /\ stack[1].pc = "override"
    /\ stack[1].cstyle.flex_wrap = "nowrap"
    /\ RLt(R(0), stack[1].main_gap)
    /\ Len(stack[1].items) = 3
    /\ Len(stack[1].lines) = 1
    /\ RLt(stack[1].available_main, RunUsed(stack[1], 1, 3))

\* C17 (line partition): the lines are non-empty consecutive runs whose
\* concatenation is the item sequence, and a line starts at item i > 1
\* exactly when wrapping is enabled and the base main sizes and gaps of the
\* line so far, plus the gap and the base main size of item i, are strictly
\* greater than the available main space.
C17_LinePartition ==
    \A d \in 1..Len(stack) :
        LET f == stack[d]
        IN  /\ \A l \in 1..Len(f.lines) : f.lines[l] # <<>>
            /\ Flatten(f.lines) = [k \in 1..Len(f.items) |-> k]
            /\ \A i \in 2..Len(f.items) :
                 (LineStart(f, i) = i) <=>
                    /\ f.cstyle.flex_wrap \in {"wrap", "wrap-reverse"}
                    /\ RLt(f.available_main,
                           RAdd(RAdd(RunUsed(f, LineStart(f, i - 1), i - 1), f.main_gap),
                                f.items[i].base_main))

C17_Witness ==
    /\ Len(stack) = 1
    /\ stack[1].pc = "override"
    /\ LET f == stack[1]
       IN  /\ f.cstyle.flex_wrap = "wrap-reverse"
           /\ RLt(R(0), f.main_gap)
           /\ Len(f.lines) = 2
           /\ Len(f.lines[1]) = 2
           /\ RunUsed(f, 1, 2) = f.available_main
           /\ RLt(f.available_main, f.items[3].base_main)

-----------------------------------------------------------------------------
(* Containers without a participating child *)

\* A container whose children are all whitespace-only text.
BlankBox ==
    Box(OtherAttr, [Sized(80, 40) EXCEPT !.display = "flex"],
        << Leaf(Txt(<<" ", "\n">>), NoAttrs, DefaultStyle),
           Leaf(Txt(<<>>), NoAttrs, Sized(20, 20)) >>)

EmptyKids ==
    { Leaf(Txt(<<" ">>), NoAttrs, DefaultStyle),
      Leaf(Txt(<<>>), NoAttrs, Sized(60, 40)),
      Leaf(NoText, OtherAttr, Sized(60, 40)),
      BlankBox }

EmptyRootStyle ==
    [Sized(200, 120) EXCEPT !.display = "flex", !.gap = Px(10),
                            !.justify_content = "center"]

InitEmpty ==
    \E kids \in SeqsOf(EmptyKids, 0, MaxChildren) :
        InitTree(Tree(EmptyRootStyle, Rect(0, 0, 200, 120), kids), <<>>)

SpecEmpty == InitEmpty /\ [][Next]_vars

\* No frame is in flight for a container without a participating child, and
\* the children of such a container keep their records and are never handed
\* to the callback.
C12_State ==
    /\ \A d \in 1..Len(stack) : Participating(nodes, stack[d].container) # <<>>
    /\ \A n \in DOMAIN nodes :
         Participating(nodes, n) = <<>> =>
            \A c \in Elems(nodes[n].children) :
                /\ nodes[c] = tree0[c]
                /\ c \notin Elems(NodesOf(log))

\* A pass over a root without a participating child returns at once, with
\* the tree as it was and no call of the callback; the callback on a nested
\* container without a participating child returns with the tree as it was
\* and no frame of its own.
C12_Step ==
    /\ (stack = <<>> /\ Participating(nodes, Root) = <<>>) =>
          /\ nodes' = nodes
          /\ stack' = <<>>
          /\ log' = <<>>
          /\ passes' = passes + 1
    /\ (/\ stack # <<>>
        /\ Top.pc = "callback"
        /\ nodes[CurItem(Top).node].children # <<>>
        /\ Participating(nodes, CurItem(Top).node) = <<>>) =>
          /\ nodes' = nodes
          /\ Len(stack') = Len(stack)
          /\ stack'[Len(stack)].pc = "override"
          /\ NodesOf(log') = Append(NodesOf(log), CurItem(Top).node)

\* C12 (zero participating items is a no-op): when a container has no
\* children, or only whitespace-only text children, the pass over it writes
\* no layout record, calls the callback on none of them and returns.
C12_ZeroItems == []C12_State /\ [][C12_Step]_vars

C12_Witness ==
    /\ stack = <<>>
    /\ passes = 2
    /\ Len(nodes[Root].children) = 2
    /\ Participating(nodes, Root) = <<>>
    /\ nodes[nodes[Root].children[1]].text # nodes[nodes[Root].children[2]].text
    /\ nodes = tree0
    /\ log = <<>>

-----------------------------------------------------------------------------
(* Class rules: several rules per box, several declarations per property *)

RuleA == Rule("a", <<Decl("width", Px(60)), Decl("height", Px(40))>>)
RuleA2 == Rule("a", <<Decl("width", Px(90))>>)
RuleB == Rule("b", <<Decl("width", Px(90)), Decl("order", Some(1))>>)
RuleD == Rule("d", <<Decl("width", Px(60)), Decl("order", Some(1)), Decl("height", Px(40)),
                     Decl("width", Px(80)), Decl("order", Some(0 - 1))>>)

CascadeSheets ==
    { <<RuleA, RuleB, RuleD>>, <<RuleB, RuleD, RuleA>>, <<RuleA, RuleD, RuleA2>> }

CascadeKids ==
    { Leaf(NoText, Class(<<"a">>), DefaultStyle),
      Leaf(NoText, Class(<<"a", "b">>), DefaultStyle),
      Leaf(NoText, Class(<<"b", "a">>), DefaultStyle),
      Leaf(NoText, Class(<<"d">>), [DefaultStyle EXCEPT !.width = Px(30)]),
      NestedKid }

CascadeRootStyle ==
    [Sized(400, 200) EXCEPT !.display = "flex", !.flex_direction = "row"]

\* test_margin_override_1 and test_margin_override_2: a 400x200 flex
\* container with one child of class `child`.
MarginSheet1 ==
    << Rule("container", <<Decl("display", "flex"), Decl("width", Px(400)),
                           Decl("height", Px(200))>>),
       Rule("child", <<Decl("width", Px(60)), Decl("height", Px(40)),
                       Decl("margin", Sides(20, 20, 20, 20)), Decl("margin_left", 50)>>) >>

MarginSheet2 ==
    << Rule("container", <<Decl("display", "flex"), Decl("width", Px(400)),
                           Decl("height", Px(200))>>),
       Rule("child", <<Decl("width", Px(60)), Decl("height", Px(40)),
                       Decl("margin_left", 50), Decl("margin", Sides(20, 20, 20, 20))>>) >>

MarginTree ==
    Tree(CascadeRootStyle, Rect(0, 0, 400, 200),
         << Leaf(NoText, Class(<<"child">>), DefaultStyle) >>)

InitCascade ==
    \/ \E rules \in CascadeSheets, kids \in SeqsOf(CascadeKids, 1, MaxChildren) :
          InitTree(Tree(CascadeRootStyle, Rect(0, 0, 400, 200), kids), rules)
    \/ InitTree(MarginTree, MarginSheet1)
    \/ InitTree(MarginTree, MarginSheet2)

SpecCascade == InitCascade /\ [][Next]_vars

\* The places of rule r that declare property p, and the last declared value.
DeclaresAt(r, p) == {k \in 1..Len(r.declarations) : r.declarations[k].prop = p}
LastDeclared(r, p) ==
    r.declarations[CHOOSE k \in DeclaresAt(r, p) : \A j \in DeclaresAt(r, p) : j <= k].val

\* The rules of the stylesheet whose selector is a class of node n.
MatchingRules(n) ==
    {i \in 1..Len(sheet) : sheet[i].selector \in Elems(nodes[n].attrs.classes)}

PlainProps == {"width", "height", "order", "flex_grow", "flex_shrink", "display",
               "flex_direction", "flex_wrap"}

\* C13 as stated (last matching rule wins): for every item with a class and
\* every property that rules matching one of its classes declare, the
\* resolved value is the one declared by the last of those rules in
\* rule-list order.
C13_LastRuleWins ==
    \A d \in 1..Len(stack) : \A k \in 1..Len(stack[d].items) :
        LET it == stack[d].items[k]
        IN  \A p \in PlainProps :
               LET declaring == {i \in MatchingRules(it.node) : DeclaresAt(sheet[i], p) # {}}
               IN  declaring # {} =>
                     it.style[p] =
                        LastDeclared(sheet[CHOOSE i \in declaring : \A j \in declaring : j <= i], p)

-----------------------------------------------------------------------------
(* Items with margins *)

Margined(style, t, r, b, l) == [style EXCEPT !.margin = Sides(t, r, b, l)]

MarginNested ==
    Box(OtherAttr, [DefaultStyle EXCEPT !.display = "flex", !.flex_direction = "column"],
        << Leaf(NoText, OtherAttr, Margined(Sized(60, 40), 0, 0, 0, 20)),
           Leaf(NoText, OtherAttr, Margined([Sized(60, 40) EXCEPT !.flex_grow = Some(1)],
                                            5, 10, 15, 20)) >>)

MarginKids ==
    { Leaf(NoText, OtherAttr, Margined(Sized(60, 40), 0, 0, 0, 20)),
      Leaf(NoText, OtherAttr, Margined([Sized(90, 60) EXCEPT !.flex_grow = Some(1),
                                                             !.flex_shrink = Some(1)],
                                       5, 10, 15, 20)),
      MarginNested }

MarginRootStyles ==
    { [Sized(200, 120) EXCEPT !.display = "flex", !.flex_direction = "row"],
      [Sized(200, 120) EXCEPT !.display = "flex", !.flex_direction = "row",
                              !.flex_wrap = "wrap", !.gap = Px(10)],
      [Sized(200, 120) EXCEPT !.display = "flex", !.flex_direction = "column",
                              !.justify_content = "center"] }

InitMargin ==
    \E rs \in MarginRootStyles, kids \in SeqsOf(MarginKids, 1, MaxChildren) :
        InitTree(Tree(rs, Rect(0, 0, 200, 120), kids), <<>>)

SpecMargin == InitMargin /\ [][Next]_vars

\* Tree T with the margin of every node but the root removed.
StripMargins(T) ==
    [n \in DOMAIN T |-> IF n = Root THEN T[n] ELSE [T[n] EXCEPT !.style.margin = NoSides]]

StripItem(item) == [item EXCEPT !.style.margin = NoSides]

\* The tree the call of the frame at depth d runs over, margins removed: for
\* the root call the tree as the pass found it, for a nested call that tree
\* with the nested container's record as the root call writes it.
MarginFreeTree(d) ==
    Pick({ IF d = 1 THEN S
           ELSE Pick({ [S EXCEPT ![c].bounds = rects[c],
                                 ![c].style = resolve_style(S, c, S[Root].style)]
                       : c \in {stack[d].container},
                         rects \in {PassRects(S, Root, S[Root].style)} })
           : S \in {StripMargins(preNodes)} })

\* The rectangles the placement loop of frame g gives its items.
RectsOf(g) == IF g.items = <<>> THEN <<>> ELSE RunPlacement(StartLine(g, 1), <<>>)

\* C15 (margins are not consulted): every frame has the items (margin
\* aside), the line partition, and, for the item it is at, the x, y, width
\* and height that the same call computes over the tree whose items have no
\* margin; that rectangle is what the engine writes before the callback and
\* its (x, y) are the callback's arguments.
C15_MarginsIgnored ==
    \A d \in 1..Len(stack) :
      \A f \in {stack[d]} :
        \A S \in {MarginFreeTree(d)} :
          \A g \in {NewFrame(S, f.container, S[f.container].style)} :
            /\ Len(stack) <= 2
            /\ f.lines = g.lines
            /\ [k \in 1..Len(f.items) |-> StripItem(f.items[k]).style] =
                   [k \in 1..Len(g.items) |-> g.items[k].style]
            /\ [k \in 1..Len(f.items) |-> f.items[k].base_main] =
                   [k \in 1..Len(g.items) |-> g.items[k].base_main]
            /\ f.pc \in {"callback", "override"} =>
                 \A rects \in {RectsOf(g)} : \A calls \in {CallsOf(d)} :
                    /\ BoundsOf(f) = rects[CurItem(f).node]
                    /\ f.pc = "callback" =>
                         nodes[CurItem(f).node].bounds = rects[CurItem(f).node]
                    /\ \A k \in 1..Len(calls) :
                         /\ calls[k].x = rects[calls[k].node].x
                         /\ calls[k].y = rects[calls[k].node].y

\* Three 60x40 children with a left margin of 20: the third is written at
\* x = 120, and the callback has left the second one at 60 + 20.
C15_Witness ==
    /\ Len(stack) = 1
    /\ stack[1].pc = "callback"
    /\ stack[1].pos = 3
    /\ IsRow(stack[1].direction)
    /\ Len(stack[1].lines) = 1
    /\ CurItem(stack[1]).style.margin.left = 20
    /\ stack[1].x = R(120)
    /\ \E c \in Elems(nodes[Root].children) :
         nodes[c].style.margin.left = 20 /\ nodes[c].bounds.x = R(80)

-----------------------------------------------------------------------------
(* Engine::run *)

InitEngine == InitTree(ScenarioB, <<>>)

SpecEngine == InitEngine /\ [][NextEngine]_vars

\* While a call of run holds the lock no other call gets past try_lock, so
\* at most one event loop of the engine runs, and it is the lock holder's.
AtMostOneEventLoop ==
    /\ Cardinality(loops) <= 1
    /\ loops \subseteq {running}
    /\ \A h \in Handles : runpc[h] # "idle" <=> running = h

\* C16 as stated (run only once per engine, clones included): every call of
\* run made after run has been started before returns AlreadyRunning and
\* starts no event loop, and no two event loops of the engine run at once.
C16_RunOnlyOnce ==
    /\ \A k \in 1..Len(runlog) :
         runlog[k].started_before =>
            /\ runlog[k].result = "AlreadyRunning"
            /\ ~runlog[k].looped
    /\ Cardinality(loops) <= 1

-----------------------------------------------------------------------------
(* Lines that overflow: shrinking *)

ShrinkRootStyles ==
    { [Sized(100, 80) EXCEPT !.display = "flex", !.flex_direction = "row"],
      [Sized(100, 80) EXCEPT !.display = "flex", !.flex_direction = "row", !.gap = Px(120)],
      [Sized(100, 80) EXCEPT !.display = "flex", !.flex_direction = "column",
                             !.gap = Px(10)] }

ShrinkKids ==
    { Leaf(NoText, OtherAttr, [Sized(20, 20) EXCEPT !.flex_shrink = Some(1)]),
      Leaf(NoText, OtherAttr, Sized(250, 250)),
      Leaf(NoText, OtherAttr, [Sized(90, 90) EXCEPT !.flex_shrink = Some(2)]),
      NestedKid }

InitShrink ==
    \E rs \in ShrinkRootStyles, kids \in SeqsOf(ShrinkKids, 1, MaxChildren) :
        InitTree(Tree(rs, Rect(0, 0, 100, 80), kids), <<>>)

SpecShrink == InitShrink /\ [][Next]_vars

NatShrink(item) == IF item.style.flex_shrink.k = "some" THEN item.style.flex_shrink.v ELSE 0

\* flex-shrink (unset = 0) times base main size, and its sum over a line.
Weight(item) == RMul(R(NatShrink(item)), item.base_main)
LineWeights(f, li) ==
    SumSeq([p \in 1..Len(f.lines[li]) |-> Weight(f.items[f.lines[li][p]])])

\* C18 (shrink distribution): on every line with negative free space and a
\* positive sum of shrink weights, each item's final main size is
\* base_main - |free_space| * (own_weight / total_weight), the final main
\* sizes plus the gaps add up to available_main, and an item of weight 0
\* keeps its base main size.
C18_ShrinkDistribution ==
    \A d \in 1..Len(stack) : \A li \in FlexedLines(stack[d]) :
        LET f == stack[d]
            line == f.lines[li]
            free == LineFree(f, li)
            total == LineWeights(f, li)
        IN  (RLt(free, R(0)) /\ RLt(R(0), total)) =>
              /\ \A p \in 1..Len(line) :
                   LET it == f.items[line[p]]
                   IN  /\ it.final_main =
                            RSub(it.base_main,
                                 RMul(RSub(R(0), free), RDiv(Weight(it), total)))
                       /\ Weight(it) = R(0) => it.final_main = it.base_main
              /\ RAdd(LineFinals(f, li), LineGaps(f, li)) = f.available_main

C18_Witness ==
    \E d \in 1..Len(stack) : \E li \in FlexedLines(stack[d]) :
        LET f == stack[d]
            line == f.lines[li]
        IN  /\ f.pc = "override"
            /\ RLt(R(0), f.main_gap)
            /\ RLt(LineFree(f, li), R(0))
            /\ \E p, q, r \in 1..Len(line) :
                 /\ Weight(f.items[line[p]]) = R(0)
                 /\ RLt(R(0), Weight(f.items[line[q]]))
                 /\ RLt(Weight(f.items[line[q]]), Weight(f.items[line[r]]))
                 /\ RLt(R(0), f.items[line[q]].final_main)

\* The main-axis size and position a frame has computed for its current item.
MainSizeOf(f) == IF IsRow(f.direction) THEN f.w ELSE f.h
MainPosOf(f) == IF IsRow(f.direction) THEN RSub(f.x, f.container_x)
                ELSE RSub(f.y, f.container_y)
MainExtent(f, b) == IF IsRow(f.direction) THEN b.width ELSE b.height

\* C19 (negative sizes pass through): a shrunk final main size is the
\* unclamped base_main - |free_space| * (own_weight / total_weight) also
\* where that is below 0; the main size computed for an item, written before
\* the callback and written again after it, is the item's final main size
\* whatever its sign; and the position of an item in a flex-start line of a
\* row or column container is the sum of the final main sizes and gaps before
\* it, negative ones included.
C19_NegativePassThrough ==
    \A d \in 1..Len(stack) :
        LET f == stack[d]
            line == f.lines[f.li]
            free == LineFree(f, f.li)
            total == LineWeights(f, f.li)
        IN  /\ (RLt(free, R(0)) /\ RLt(R(0), total)) =>
                 \A p \in 1..Len(line) :
                    LET it == f.items[line[p]]
                        cut == RMul(RSub(R(0), free), RDiv(Weight(it), total))
                    IN  RLt(it.base_main, cut) =>
                          /\ RLt(it.final_main, R(0))
                          /\ it.final_main = RSub(it.base_main, cut)
            /\ f.pc \in {"callback", "override"} =>
                 /\ MainSizeOf(f) = CurItem(f).final_main
                 /\ f.pc = "callback" =>
                      MainExtent(f, nodes[CurItem(f).node].bounds) = CurItem(f).final_main
                 /\ (f.justify_content = "flex-start" /\ ~IsReverse(f.direction)) =>
                      MainPosOf(f) =
                         RAdd(SumSeq([q \in 1..(f.pos - 1) |-> f.items[line[q]].final_main]),
                              RMul(R(f.pos - 1), f.main_gap))
            /\ \A k \in 1..Before(f) :
                 MainExtent(f, nodes[ItemNodes(f)[k]].bounds) = ItemAt(f, k).final_main

\* A 20 wide shrinkable item before a 250 wide item that does not shrink, in
\* a 100 wide row: the first is given -150 as its width, which stays in its
\* record after the callback, and the second is placed at x = -150.
C19_Witness ==
    /\ Len(stack) = 1
    /\ stack[1].pc = "callback"
    /\ stack[1].pos = 2
    /\ IsRow(stack[1].direction)
    /\ stack[1].main_gap = R(0)
    /\ stack[1].items[1].base_main = R(20)
    /\ stack[1].items[1].final_main = R(0 - 150)
    /\ nodes[stack[1].items[1].node].bounds.width = R(0 - 150)
    /\ stack[1].x = R(0 - 150)

-----------------------------------------------------------------------------
(* Containers with padding, border and auto sizes *)

SpaceBox == [padding |-> Sides(1, 2, 4, 8), border_width |-> Px(3)]
NoSpaceBox == [padding |-> NoSides, border_width |-> None]

SpaceRootStyles ==
    { [DefaultStyle EXCEPT !.display = "flex", !.flex_direction = d,
                           !.width = wh[1], !.height = wh[2],
                           !.padding = pb.padding, !.border_width = pb.border_width] :
        d \in {"row", "column"},
        wh \in {<<Auto, Auto>>, <<Auto, None>>, <<Px(200), Auto>>, <<None, Px(120)>>},
        pb \in {SpaceBox, NoSpaceBox} }

SpaceRootBounds == {Rect(0, 0, 200, 120), Rect(0, 0, 10, 5)}

SpaceNested ==
    Box(OtherAttr, [DefaultStyle EXCEPT !.display = "flex", !.flex_direction = "column",
                                        !.width = Px(60), !.height = Auto,
                                        !.padding = Sides(1, 2, 4, 8),
                                        !.border_width = Px(3)],
        << Leaf(NoText, OtherAttr, Sized(60, 40)),
           Leaf(NoText, OtherAttr, [Sized(60, 40) EXCEPT !.flex_grow = Some(1)]) >>)

SpaceKids ==
    { Leaf(NoText, OtherAttr, [Sized(60, 40) EXCEPT !.flex_grow = Some(1)]),
      SpaceNested }

InitSpace ==
    \E rs \in SpaceRootStyles, b \in SpaceRootBounds, kids \in SeqsOf(SpaceKids, 1, MaxChildren) :
        InitTree(Tree(rs, b, kids), <<>>)

SpecSpace == InitSpace /\ [][Next]_vars

\* Whether the axis of frame f is the horizontal one.
Horizontal(f, axis) ==
    \/ axis = "main" /\ f.direction \in {"row", "row-reverse"}
    \/ axis = "cross" /\ f.direction \in {"column", "column-reverse"}

\* The space the claim gives frame f on the axis.
ClaimedSpace(f, axis) ==
    LET cs == f.cstyle
        b == nodes[f.container].bounds
        dim == IF Horizontal(f, axis) THEN cs.width ELSE cs.height
        extent == IF Horizontal(f, axis) THEN b.width ELSE b.height
        pads == IF cs.padding.k = "none" THEN 0
                ELSE IF Horizontal(f, axis) THEN cs.padding.left + cs.padding.right
                ELSE cs.padding.top + cs.padding.bottom
        border == IF cs.border_width.k = "none" THEN R(0) ELSE RMul(R(2), to_px(cs.border_width))
        inner == RSub(RSub(extent, R(pads)), border)
    IN  IF dim.k # "auto" THEN extent
        ELSE IF RLt(inner, R(0)) THEN R(0) ELSE inner

-----------------------------------------------------------------------------
(* Base sizes: flex-basis, defaults, containers as items *)

BaseRootStyles ==
    { [Sized(400, 300) EXCEPT !.display = "flex", !.flex_direction = d] :
        d \in {"row", "column"} }

BaseKids ==
    { Leaf(NoText, OtherAttr, [Sized(60, 40) EXCEPT !.flex_basis = Px(0)]),
      Leaf(NoText, OtherAttr, [DefaultStyle EXCEPT !.flex_basis = Auto, !.width = Px(0),
                                                   !.height = Auto]),
      Box(OtherAttr, [DefaultStyle EXCEPT !.display = "flex"],
          << Leaf(NoText, OtherAttr, Sized(60, 40)),
             Leaf(NoText, OtherAttr, [DefaultStyle EXCEPT !.width = Auto,
                                                          !.height = Px(0)]) >>),
      Box(OtherAttr, [DefaultStyle EXCEPT !.display = "flex", !.flex_basis = Auto],
          << Leaf(NoText, OtherAttr, Sized(60, 40)) >>),
      Box(OtherAttr, [Sized(80, 50) EXCEPT !.display = "flex"],
          << Leaf(NoText, OtherAttr, Sized(120, 70)) >>) }

InitBase ==
    \E rs \in BaseRootStyles, kids \in SeqsOf(BaseKids, 1, MaxChildren) :
        InitTree(Tree(rs, Rect(0, 0, 400, 300), kids), <<>>)

SpecBase == InitBase /\ [][Next]_vars

\* The physical width and height the claims give a style.
PhysicalWidth(style) ==
    IF style.width.k = "px" /\ style.width.v > 0 THEN R(style.width.v) ELSE R(100)
PhysicalHeight(style) ==
    IF style.height.k = "px" /\ style.height.v > 0 THEN R(style.height.v) ELSE R(30)
PhysicalMain(f, style) ==
    IF f.direction \in {"row", "row-reverse"} THEN PhysicalWidth(style) ELSE PhysicalHeight(style)
PhysicalCross(f, style) ==
    IF f.direction \in {"row", "row-reverse"} THEN PhysicalHeight(style) ELSE PhysicalWidth(style)
MainDimension(f, style) ==
    IF f.direction \in {"row", "row-reverse"} THEN style.width ELSE style.height

\* Whether the claims let the shrink-to-fit override apply to the item: it
\* has children, no explicit main-axis length and no flex-basis.
OverrideApplies(f, item) ==
    /\ nodes[item.node].children # <<>>
    /\ MainDimension(f, item.style).k # "px"
    /\ item.style.flex_basis.k = "none"

\* C21 (base sizes): for every item, the base cross size is the axis-mapped
\* physical size (style size when set and positive, else 100 wide, 30 high)
\* whatever the flex-basis; the base main size is the flex-basis when that is
\* an explicit length, zero included, and the axis-mapped physical size when
\* flex-basis is auto, or unset on an item the shrink-to-fit override does
\* not concern.
C21_BaseSizes ==
    \A d \in 1..Len(stack) : \A k \in 1..Len(stack[d].items) :
        LET f == stack[d]
            it == f.items[k]
        IN  /\ it.base_cross = PhysicalCross(f, it.style)
            /\ it.style.flex_basis.k = "px" => it.base_main = R(it.style.flex_basis.v)
            /\ it.style.flex_basis.k = "auto" => it.base_main = PhysicalMain(f, it.style)
            /\ (it.style.flex_basis.k = "none" /\ ~OverrideApplies(f, it)) =>
                  it.base_main = PhysicalMain(f, it.style)

\* A row with an item of flex-basis 0 and declared 60x40 (base 0 by 40), and
\* an item of flex-basis auto, width 0 and height auto (base 100 by 30).
C21_Witness ==
    /\ Len(stack) = 1
    /\ stack[1].direction = "row"
    /\ stack[1].pc = "override"
    /\ \E p, q \in 1..Len(stack[1].items) :
         /\ stack[1].items[p].style.flex_basis = Px(0)
         /\ stack[1].items[p].style.width = Px(60)
         /\ stack[1].items[p].base_main = R(0)
         /\ stack[1].items[p].base_cross = R(40)
         /\ stack[1].items[q].style.flex_basis = Auto
         /\ stack[1].items[q].style.width = Px(0)
         /\ stack[1].items[q].base_main = R(100)
         /\ stack[1].items[q].base_cross = R(30)

\* The greatest physical main size among the children of the item, each
\* child's style resolved with the item's style as fallback.
MaxChildPhysicalMain(f, item) ==
    LET kids == preNodes[item.node].children
    IN  FoldMax([i \in 1..Len(kids) |->
                    PhysicalMain(f, resolve_style(preNodes, kids[i], item.style))], R(0))

\* C22 as stated (shrink-to-fit override): an item with children, without
\* explicit main-axis length and without flex-basis has as base main size the
\* maximum over its children of the child's axis-mapped physical size, the
\* 100x30 default standing in for an unset or non-positive size; any other
\* item has the base main size of the base-size rules.
C22_ShrinkToFit ==
    \A d \in 1..Len(stack) : \A k \in 1..Len(stack[d].items) :
        LET f == stack[d]
            it == f.items[k]
        IN  IF OverrideApplies(f, it)
            THEN it.base_main = MaxChildPhysicalMain(f, it)
            ELSE it.base_main = IF it.style.flex_basis.k = "px" THEN R(it.style.flex_basis.v)
                                ELSE PhysicalMain(f, it.style)

-----------------------------------------------------------------------------
(* align-self and explicit auto cross dimensions *)

SelfRootStyles ==
    { [Sized(200, 120) EXCEPT !.display = "flex", !.flex_direction = "row", !.align_items = a] :
        a \in {Unset, "center", "flex-end"} }

SelfKids ==
    { Leaf(NoText, OtherAttr, [Sized(60, 40) EXCEPT !.align_self = "flex-end"]),
      Leaf(NoText, OtherAttr, [DefaultStyle EXCEPT !.width = Px(60), !.height = Auto,
                                                   !.align_self = "stretch"]),
      Leaf(NoText, OtherAttr, [DefaultStyle EXCEPT !.width = Px(60), !.align_self = "stretch"]),
      Box(OtherAttr, [Sized(60, 40) EXCEPT !.display = "flex", !.flex_direction = "column",
                                           !.align_self = "center"],
          << Leaf(NoText, OtherAttr, [DefaultStyle EXCEPT !.height = Px(20)]),
             Leaf(NoText, OtherAttr, [DefaultStyle EXCEPT !.width = Auto, !.height = Px(20)]) >>) }

InitSelf ==
    \E rs \in SelfRootStyles, kids \in SeqsOf(SelfKids, 1, MaxChildren) :
        InitTree(Tree(rs, Rect(0, 0, 200, 120), kids), <<>>)

SpecSelf == InitSelf /\ [][Next]_vars

\* align-self when it is set and not auto, else the container's align-items,
\* stretch when that is unset.
EffectiveAlignment(f, item) ==
    IF item.style.align_self \notin {Unset, "auto"} THEN item.style.align_self
    ELSE IF f.cstyle.align_items = Unset THEN "stretch"
    ELSE f.cstyle.align_items

CrossDimensionOf(f, item) ==
    IF f.direction \in {"row", "row-reverse"} THEN item.style.height ELSE item.style.width

\* C23 as stated (stretch): an item of the line being placed has the line's
\* cross size as final cross size exactly when its effective alignment is
\* stretch and its cross-axis style dimension is unset or auto, and keeps its
\* base cross size otherwise.
C23_Stretch ==
    \A d \in 1..Len(stack) : \A p \in 1..Len(stack[d].lines[stack[d].li]) :
        LET f == stack[d]
            it == f.items[f.lines[f.li][p]]
        IN  it.final_cross =
               IF /\ EffectiveAlignment(f, it) = "stretch"
                  /\ CrossDimensionOf(f, it).k \in {"none", "auto"}
               THEN f.line_cross_size
               ELSE it.base_cross

CrossPosOf(f) == IF IsRow(f.direction) THEN RSub(f.y, f.container_y)
                 ELSE RSub(f.x, f.container_x)

\* C24 as stated (cross position by effective alignment): the cross position
\* computed for an item is the line's cross start offset for flex-start,
\* baseline and stretch, the offset plus (line cross size - item cross size)
\* for flex-end and the offset plus half of that for center, the alignment
\* being the item's align-self when set and not auto, else the container's
\* align-items.
C24_CrossPosition ==
    \A d \in 1..Len(stack) :
        LET f == stack[d]
            it == CurItem(f)
            a == EffectiveAlignment(f, it)
            slack == RSub(f.line_cross_size, it.final_cross)
        IN  f.pc \in {"callback", "override"} =>
               CrossPosOf(f) =
                  IF a = "flex-end" THEN RAdd(f.line_cross_offset, slack)
                  ELSE IF a = "center" THEN RAdd(f.line_cross_offset, RDiv(slack, R(2)))
                  ELSE f.line_cross_offset

-----------------------------------------------------------------------------
(* Several lines: stacking along the cross axis *)

StackRootStyles ==
    { [Sized(200, 120) EXCEPT !.display = "flex", !.flex_direction = "row",
                              !.flex_wrap = "wrap", !.gap = Px(10)],
      [Sized(200, 120) EXCEPT !.display = "flex", !.flex_direction = "row",
                              !.flex_wrap = "wrap", !.gap = Px(10),
                              !.align_items = "flex-end"],
      [Sized(200, 120) EXCEPT !.display = "flex", !.flex_direction = "row",
                              !.flex_wrap = "wrap-reverse", !.align_items = "center"],
      [Sized(200, 120) EXCEPT !.display = "flex", !.flex_direction = "column",
                              !.flex_wrap = "wrap", !.row_gap = Px(5),
                              !.column_gap = Px(10)] }

StackKids ==
    { Leaf(NoText, OtherAttr, Sized(120, 40)),
      Leaf(NoText, OtherAttr, Sized(90, 70)),
      Leaf(NoText, OtherAttr, [DefaultStyle EXCEPT !.flex_basis = Px(120)]),
      NestedKid }

InitStack ==
    \E rs \in StackRootStyles, kids \in SeqsOf(StackKids, 1, MaxChildren) :
        InitTree(Tree(rs, Rect(0, 0, 200, 120), kids), <<>>)

SpecStack == InitStack /\ [][Next]_vars

\* The greatest final cross size among the items of line li of frame f.
MaxFinalCross(f, li) ==
    FoldMax([p \in 1..Len(f.lines[li]) |-> f.items[f.lines[li][p]].final_cross], R(0))

\* The line of the k-th item of frame f, counting line by line.
LineIndexOf(f, k) ==
    CHOOSE li \in 1..Len(f.lines) :
        LensBefore(f.lines, li) < k /\ k <= LensBefore(f.lines, li) + Len(f.lines[li])

\* Start and end of a rectangle on the cross axis of frame f.
CrossStart(f, b) == IF IsRow(f.direction) THEN b.y ELSE b.x
CrossEnd(f, b) == IF IsRow(f.direction) THEN RAdd(b.y, b.height) ELSE RAdd(b.x, b.width)

\* C25 (line stacking): the cross start offset of the first line is 0; in a
\* container of two or more lines the offset of the line being placed is the
\* sum over the earlier lines of (line cross size + cross gap), a line's cross
\* size being the largest final cross size of its items, and every item of
\* the line is at most as large as the line on the cross axis; with a
\* non-negative cross gap an item placed in an earlier line ends on the cross
\* axis where or before an item placed in a later line starts.
C25_LineStacking ==
    \A d \in 1..Len(stack) :
        LET f == stack[d]
        IN  /\ f.li = 1 => f.line_cross_offset = R(0)
            /\ Len(f.lines) >= 2 =>
                 /\ f.line_cross_offset =
                       SumSeq([j \in 1..(f.li - 1) |-> RAdd(MaxFinalCross(f, j), f.cross_gap)])
                 /\ f.line_cross_size = MaxFinalCross(f, f.li)
                 /\ \A p \in 1..Len(f.lines[f.li]) :
                       RLe(f.items[f.lines[f.li][p]].final_cross, f.line_cross_size)
            /\ RLe(R(0), f.cross_gap) =>
                 \A a, b \in 1..Before(f) :
                    LineIndexOf(f, a) < LineIndexOf(f, b) =>
                       RLe(CrossEnd(f, nodes[ItemNodes(f)[a]].bounds),
                           CrossStart(f, nodes[ItemNodes(f)[b]].bounds))

\* Three lines, a positive cross gap, and items of different cross sizes in
\* the first two; the third line starts below both.
C25_Witness ==
    /\ Len(stack) = 1
    /\ stack[1].pc = "override"
    /\ Len(stack[1].lines) = 3
    /\ stack[1].li = 3
    /\ RLt(R(0), stack[1].cross_gap)
    /\ MaxFinalCross(stack[1], 1) # MaxFinalCross(stack[1], 2)
    /\ stack[1].line_cross_offset =
          RAdd(RAdd(MaxFinalCross(stack[1], 1), MaxFinalCross(stack[1], 2)),
               RMul(R(2), stack[1].cross_gap))

-----------------------------------------------------------------------------
(* Placement along the main axis in the four directions *)

PlaceRootStyles ==
    { [Sized(400, 200) EXCEPT !.display = "flex", !.flex_direction = d,
                              !.justify_content = j,
                              !.gap = IF d \in {"column", "column-reverse"} THEN Px(10) ELSE None] :
        d \in {"row", "row-reverse", "column", "column-reverse"},
        j \in {"flex-start", "flex-end"} }

PlaceKids ==
    { Leaf(NoText, OtherAttr, Sized(60, 40)),
      Leaf(NoText, OtherAttr, Sized(90, 60)),
      NestedKid }

\* Scenario A: a 400x200 row container, three children of 60x40,
\* justify-content: flex-start, no gap.
ScenarioA ==
    Tree([Sized(400, 200) EXCEPT !.display = "flex", !.flex_direction = "row",
                                 !.justify_content = "flex-start"],
         Rect(0, 0, 400, 200),
         << Leaf(NoText, OtherAttr, Sized(60, 40)),
            Leaf(NoText, OtherAttr, Sized(60, 40)),
            Leaf(NoText, OtherAttr, Sized(60, 40)) >>)

InitPlace ==
    \E rs \in PlaceRootStyles, kids \in SeqsOf(PlaceKids, 1, MaxChildren) :
        InitTree(Tree(rs, Rect(0, 0, 400, 200), kids), <<>>)

SpecPlace == InitPlace /\ [][Next]_vars

Reversed(f) == f.direction \in {"row-reverse", "column-reverse"}
AlongX(f) == f.direction \in {"row", "row-reverse"}

\* What is left of available_main beside the flexed items of the line being
\* placed and the gaps between them, floored at 0.
Leftover(f) ==
    LET used == RAdd(LineFinals(f, f.li), LineGaps(f, f.li))
    IN  IF RLt(f.available_main, used) THEN R(0) ELSE RSub(f.available_main, used)

\* The start offset of flex-start and flex-end lines.
StartOffset(f) ==
    IF (f.justify_content = "flex-start") = Reversed(f) THEN Leftover(f) ELSE R(0)

MainStart(f, b) == IF AlongX(f) THEN b.x ELSE b.y
MainEnd(f, b) == IF AlongX(f) THEN RAdd(b.x, b.width) ELSE RAdd(b.y, b.height)

\* C26 (main-axis placement and reversal): in each of the four directions
\* the item being placed is at container origin + start offset + the final
\* main sizes and gaps of the earlier items of its line, on the x axis for
\* row and row-reverse and on the y axis for column and column-reverse; the
\* start offset of flex-start is 0 and of flex-end the leftover, exchanged in
\* the reversed directions; with non-negative sizes and gaps an item placed
\* earlier in a line ends where or before a later one starts; Scenario A puts
\* its three children at x = 0, 60, 120.
C26_MainPlacement ==
    /\ \A d \in 1..Len(stack) :
         LET f == stack[d]
             line == f.lines[f.li]
             origin == IF AlongX(f) THEN nodes[f.container].bounds.x
                       ELSE nodes[f.container].bounds.y
             here == IF AlongX(f) THEN f.x ELSE f.y
         IN  /\ (f.pc \in {"callback", "override"}
                   /\ f.justify_content \in {"flex-start", "flex-end"}) =>
                  here = RAdd(RAdd(origin, StartOffset(f)),
                              SumSeq([q \in 1..(f.pos - 1) |->
                                         RAdd(f.items[line[q]].final_main, f.main_gap)]))
             /\ (RLe(R(0), f.between_gap)
                   /\ \A q \in 1..Len(line) : RLe(R(0), f.items[line[q]].final_main)) =>
                  \A a, b \in 1..Before(f) :
                     (a < b /\ LineIndexOf(f, a) = f.li /\ LineIndexOf(f, b) = f.li) =>
                        RLe(MainEnd(f, nodes[ItemNodes(f)[a]].bounds),
                            MainStart(f, nodes[ItemNodes(f)[b]].bounds))
    /\ (tree0 = ScenarioA /\ Finished) =>
         /\ nodes[1].bounds.x = R(0) /\ nodes[2].bounds.x = R(60) /\ nodes[3].bounds.x = R(120)
         /\ \A c \in 1..3 : nodes[c].bounds.y = R(0) /\ nodes[c].bounds.height = R(40)

\* row-reverse with flex-start and three 60 wide items: the leftover of 220
\* comes first and the third item, last in child order, is at x = 340.
C26_Witness ==
    /\ Len(stack) = 1
    /\ stack[1].pc = "callback"
    /\ stack[1].direction = "row-reverse"
    /\ stack[1].justify_content = "flex-start"
    /\ stack[1].pos = 3
    /\ ItemNodes(stack[1]) = <<1, 2, 3>>
    /\ nodes[1].bounds.x = R(220)
    /\ nodes[2].bounds.x = R(280)
    /\ stack[1].x = R(340)

-----------------------------------------------------------------------------
(* Justification inside the available space *)

FitRootStyles ==
    { [Sized(300, 100) EXCEPT !.display = "flex", !.flex_direction = d,
                              !.justify_content = j,
                              !.gap = IF d = "row-reverse" THEN Px(10) ELSE None] :
        d \in {"row", "row-reverse"},
        j \in {"flex-start", "flex-end", "center", "space-between", "space-around",
               "space-evenly"} }

FitKids ==
    { Leaf(NoText, OtherAttr, Sized(60, 40)),
      Leaf(NoText, OtherAttr, Sized(250, 40)),
      Box(OtherAttr, [Sized(180, 40) EXCEPT !.display = "flex", !.flex_direction = "column"],
          << Leaf(NoText, OtherAttr, Sized(60, 40)),
             Leaf(NoText, OtherAttr, Sized(60, 70)) >>) }

InitFit ==
    \E rs \in FitRootStyles, kids \in SeqsOf(FitKids, 1, MaxChildren) :
        InitTree(Tree(rs, Rect(0, 0, 300, 100), kids), <<>>)

SpecFit == InitFit /\ [][Next]_vars

\* The mode after the exchange of flex-start and flex-end in the reversed
\* directions.
ResolvedJustify(f) ==
    IF Reversed(f) /\ f.justify_content = "flex-start" THEN "flex-end"
    ELSE IF Reversed(f) /\ f.justify_content = "flex-end" THEN "flex-start"
    ELSE f.justify_content

\* Final main sizes and base gaps of the line being placed.
UsedMain(f) == RAdd(LineFinals(f, f.li), LineGaps(f, f.li))

\* C27 (justification stays inside): when the placement of a line begins the
\* start offset is >= 0 and the gap between items >= the base gap; if the
\* flexed line is not larger than available_main, start offset + final main
\* sizes + gaps between items is at most available_main, and equal to it
\* for the mode that resolves to flex-end and for space-between with two or
\* more items; if the line is at least as large as available_main the start
\* offset is 0 and the gap is the base gap.  The last item of a line that
\* fits is written so that it ends inside the available space.
C27_JustifyInside ==
    \A d \in 1..Len(stack) :
        LET f == stack[d]
            n == Len(f.lines[f.li])
            between == RMul(R(n - 1), f.between_gap)
            fits == RLe(UsedMain(f), f.available_main)
        IN  /\ (f.pc = "write" /\ f.pos = 1) =>
                 /\ RLe(R(0), f.cursor_main)
                 /\ RLe(f.main_gap, f.between_gap)
                 /\ fits =>
                      /\ RLe(RAdd(f.cursor_main, RAdd(LineFinals(f, f.li), between)),
                             f.available_main)
                      /\ (ResolvedJustify(f) = "flex-end"
                            \/ (f.justify_content = "space-between" /\ n >= 2)) =>
                           RAdd(f.cursor_main, RAdd(LineFinals(f, f.li), between)) =
                              f.available_main
                 /\ RLe(f.available_main, UsedMain(f)) =>
                      f.cursor_main = R(0) /\ f.between_gap = f.main_gap
            /\ (f.pc \in {"callback", "override"} /\ f.pos = n /\ fits) =>
                 RLe(RAdd(RSub(IF AlongX(f) THEN f.x ELSE f.y,
                               IF AlongX(f) THEN f.container_x ELSE f.container_y),
                          CurItem(f).final_main),
                     f.available_main)

\* space-around in a row-reverse container with a gap of 10: three items,
\* a positive leftover, the last item written short of the end.
C27_Witness ==
    /\ Len(stack) = 1
    /\ stack[1].pc = "callback"
    /\ stack[1].pos = 3
    /\ stack[1].direction = "row-reverse"
    /\ stack[1].justify_content = "space-around"
    /\ RLt(stack[1].main_gap, stack[1].between_gap)
    /\ RLt(UsedMain(stack[1]), stack[1].available_main)
    /\ RLt(RAdd(stack[1].x, stack[1].w), stack[1].available_main)
    /\ RLt(R(200), stack[1].x)

-----------------------------------------------------------------------------
(* Re-entry through the callback *)

ReentryRootStyles ==
    { [Sized(300, 120) EXCEPT !.display = "flex", !.flex_direction = "row",
                              !.justify_content = "center", !.gap = Px(10)],
      [Sized(300, 120) EXCEPT !.display = "flex", !.flex_direction = "column",
                              !.flex_wrap = "wrap", !.align_items = "flex-end"] }

ReentryKids ==
    { Leaf(NoText, OtherAttr, [Sized(90, 60) EXCEPT !.flex_grow = Some(1)]),
      NestedKid }

InitReentry ==
    \E rs \in ReentryRootStyles, kids \in SeqsOf(ReentryKids, 1, MaxChildren) :
        InitTree(Tree(rs, Rect(0, 0, 300, 120), kids), <<>>)

SpecReentry == InitReentry /\ [][Next]_vars

\* The tree as the call of the frame at depth d found it: for the root call
\* the tree as the pass was entered, for a nested call that tree with the
\* nested container's record as the root call writes it before the callback.
EntryTree(d) ==
    IF d = 1 THEN preNodes
    ELSE [preNodes EXCEPT ![stack[d].container].bounds = BoundsOf(stack[d - 1]),
                          ![stack[d].container].style =
                              resolve_style(preNodes, stack[d].container, preNodes[Root].style)]

\* C28 (safe re-entrancy): no borrow the engine makes is refused; when the
\* callback is about to be invoked, and while it runs, no call of the engine
\* holds a guard on any node; every frame has, from its first step on, the
\* resolved style and the base sizes of all its items and its line
\* partition as computed from the tree the call found; and the rectangle
\* computed for each item is the one computed from that tree alone, whatever
\* the callbacks on the items before it have written.
C28_SafeReentry ==
    /\ ~conflict
    /\ \A d \in 1..Len(stack) : stack[d].pc \in {"callback", "override"} => borrows = {}
    /\ stack = <<>> => borrows = {}
    /\ Len(stack) <= 2
    /\ \A d \in 1..Len(stack) :
         \A f \in {stack[d]} : \A T \in {EntryTree(d)} :
           \A g \in {NewFrame(T, f.container, T[f.container].style)} :
             /\ f.lines = g.lines
             /\ Len(f.items) = Len(g.items)
             /\ \A k \in 1..Len(f.items) :
                  /\ f.items[k].node = g.items[k].node
                  /\ f.items[k].style = g.items[k].style
                  /\ f.items[k].base_main = g.items[k].base_main
                  /\ f.items[k].base_cross = g.items[k].base_cross
             /\ f.pc \in {"callback", "override"} =>
                  BoundsOf(f) = RectsOf(g)[CurItem(f).node]

\* The callback on a leaf placed earlier in the root call has left in the
\* leaf's record a size and a style other than those the root call wrote;
\* the callback on an item of a nested call, made for a later item of the
\* root call, is about to run.
C28_Witness ==
    /\ Len(stack) = 2
    /\ stack[2].pc = "callback"
    /\ borrows = {}
    /\ returned.style = DefaultStyle
    /\ returned.bounds.width = R(7)
    /\ \E k \in 1..Len(stack[1].items) :
         /\ stack[1].items[k].node = returned.node
         /\ stack[1].items[k].style # returned.style
         /\ returned.node # CurItem(stack[1]).node

====
